---------------------------- MODULE Spec2Model ----------------------------
(***************************************************************************)
(* A model of the tpi client's host-scoped authentication layer (token     *)
(* cache, credential resolution, Request.Send) and of the image transfer   *)
(* pipeline (Client.FlashNode and its progress monitor).                   *)
(*                                                                         *)
(* Each network exchange is one step: the request leaves in one action and *)
(* the BMC's answer, chosen nondeterministically, arrives in the next.     *)
(* Everything the code does between two exchanges happens in the action    *)
(* that handles the answer.                                                *)
(***************************************************************************)
EXTENDS Integers, Sequences, FiniteSets, TLC

(***************************************************************************)
(* Values                                                                  *)
(***************************************************************************)

\* Host strings are sequences of characters, so that getCacheFilePath can
\* rewrite them character by character.  The empty sequence is the empty
\* host string, which names the legacy/default entry.
EmptyHost == << >>

Hosts == { EmptyHost, <<"a", ".", "b">>, <<"a", "_", "b">>, <<"c">> }

\* Token strings the BMC may issue or a caller may put; "" is the empty string.
Tokens == { "", "t1", "t2" }

\* The content of a cache file that does not exist.
NoFile == "<nofile>"

\* Credentials a caller may construct a request with: none, a user name
\* alone, and a full pair.
CallerCreds == { <<"", "">>, <<"root", "">>, <<"admin", "secret">> }

\* The vendor-default pairs of getBearerToken, in the order of the source.
credentialPairs ==
    << <<"root", "">>, <<"root", "turing">>, <<"root", "root">>,
       <<"admin", "admin">>, <<"turingpi", "turingpi">> >>

\* HTTP status codes used by the code's branches.
StatusOK == 200
StatusUnauthorized == 401

(***************************************************************************)
(* Token cache: one file per sanitized host name                           *)
(***************************************************************************)

\* strings.ReplaceAll(host, c, "_") for c in ":", "/", "."
safeHost(host) ==
    [i \in DOMAIN host |-> IF host[i] \in {":", "/", "."} THEN "_" ELSE host[i]]

\* The file name inside the cache directory (the directory itself is fixed).
getCacheFilePath(host) ==
    IF host = EmptyHost THEN <<"tpi_token">>
    ELSE <<"tpi_token_">> \o safeHost(host)

FileNames == { getCacheFilePath(h) : h \in Hosts }

VARIABLES
    files,          \* cache directory: file name -> token bytes, or NoFile
    op,             \* the API call in progress or last completed
    rHost,          \* Request.Host
    rUser,          \* Request.Credentials.Username
    rPass,          \* Request.Credentials.Password
    origUser,       \* the credentials the caller built the request with
    origPass,
    spc,            \* position inside Send / getBearerToken / requestToken
    authenticated,  \* Send's local flag
    preAuth,        \* value of authenticated when Send entered its loop
    credIdx,        \* 0: explicit credentials, 1..5: index into credentialPairs
    lastErr,        \* getBearerToken's lastErr
    curTok,         \* token attached to the exchange in flight
    curSrc,         \* where curTok was read from: "none", "host", "legacy", "fresh"
    sent,           \* requests put on the wire by the current call, in order
    lastAuth,       \* the BMC's answer to the latest authenticate request
    replies,        \* the BMC's answers to the request itself, in order
    authFails,      \* authenticate requests of this call that failed
    all401,         \* every answer received in this call was a 401
    lastWrite,      \* outcome of the call's latest CacheToken ("none" if none)
    filesAtStart,   \* the cache as it was when the current call began
    ret,            \* what the call returned
    fpc,            \* position inside FlashNode / watchFlashingProgress
    fArgs,          \* what FlashNode was given: a wrong digest, a readable image
    attempts,       \* FlashNode's loop counter (both retry loops)
    handle,         \* FlashNode's `handle`, as decoded from the initiate answer
    consecutiveErr, \* watchFlashingProgress' consecutive-error counter
    ctxDone,        \* the outer context's deadline has expired
    issued,         \* the handle of the initiate answer that ended phase 1
    stage,          \* how far the transfer got: 1 initiate answered 200 with
                    \* a handle, 2 upload to it answered 200, 3 Done polled
    netUsed,        \* FlashNode has put some HTTP request on the wire
    fret,           \* FlashNode's return value (<< >> is nil)
    formBuffer,     \* Request.MultipartForm: what is left to read in the buffer
    bodies,         \* the body each transmission of the current Send carried
    slept,          \* seconds FlashNode has slept in its current retry loop
    watching,       \* watchFlashingProgress has been called
    waited,         \* seconds the watch slept after its last poll
    resumedAfter,   \* the count in the "Resumed" message of the poll just done
    writers,        \* concurrent CacheToken calls: position inside os.WriteFile
    readResult,     \* what a concurrent GetCachedToken returned last
    written,        \* the tokens CacheToken has been called with so far
    fileSize,       \* watchFlashingProgress: the size of the image
    verifying,      \* watchFlashingProgress: "Verifying checksum..." was shown
    lastBytes,      \* watchFlashingProgress: bytes_written of the last report
    lastUpdateTime, \* watchFlashingProgress: time of the last report
    speedWindow,    \* watchFlashingProgress: the last speed samples
    clock,          \* seconds since watchFlashingProgress took startTime
    printed,        \* number of "Progress:" lines printed
    polled,         \* the answer to the last progress poll
    notices,        \* number of "Verifying checksum..." lines printed
    progress,       \* the percentage on the last "Progress:" line
    speed,          \* the speed computed for the last "Progress:" line
    rates,          \* every currentSpeed computed so far, oldest first
    eta,            \* the ETA on the last "Progress:" line
    orig,           \* a Request r
    clone,          \* the Request r.Clone() returned
    heap,           \* the backing arrays of slices, by address
    lastMut,        \* the request the last call mutated
    steps,          \* number of calls made on the two requests
    inflight,       \* a progress poll is on the wire, unanswered so far
    elapsed,        \* seconds since the poll last sent was sent
    authCache,      \* Agent.authCache: token -> time of registration
    agentClock,     \* the agent's time.Now(), in seconds
    expiry,         \* Agent.config.Auth.Expiry, in seconds
    hpc,            \* each request goroutine's position in authenticateRequest
    hreq,           \* the Auth field of the command each goroutine handles
    hts,            \* the timestamp each goroutine read from authCache
    verdict,        \* what authenticateRequest returned to each goroutine
    regTimes        \* token -> the times it was presented with the secret
                    \* and registered

vars == << files, op, rHost, rUser, rPass, origUser, origPass, spc,
           authenticated, preAuth, credIdx, lastErr, curTok, curSrc, sent,
           lastAuth, replies, authFails, all401, lastWrite, filesAtStart,
           ret, fpc, fArgs, attempts, handle, consecutiveErr, ctxDone, issued,
           stage, netUsed, fret, formBuffer, bodies, slept, watching,
           waited, resumedAfter,
           writers, readResult, written, fileSize, verifying, lastBytes,
           lastUpdateTime, speedWindow, clock, printed, polled, notices,
           progress, speed, rates, eta,
           orig, clone, heap, lastMut, steps, inflight, elapsed,
           authCache, agentClock, expiry, hpc, hreq, hts, verdict,
           regTimes >>

\* The record of the API call in progress.
callVars == << op, rHost, rUser, rPass, origUser, origPass, spc, authenticated,
               preAuth, credIdx, lastErr, curTok, curSrc, sent, lastAuth,
               replies, authFails, all401, lastWrite, filesAtStart, ret,
               formBuffer, bodies >>

\* The state of the processes that use the cache concurrently.
auxVars == << writers, readResult, written >>

\* The local variables of watchFlashingProgress that follow the transfer.
watchVars == << fileSize, verifying, lastBytes, lastUpdateTime, speedWindow,
                clock, printed, polled, notices, progress, speed, rates,
                eta >>

\* Two Request values and the memory their slices point into.
cloneVars == << orig, clone, heap, lastMut, steps >>

\* The progress poll that is on the wire.
pollVars == << inflight, elapsed >>

\* The agent's authentication state and its request goroutines.
agentVars == << authCache, agentClock, expiry, hpc, hreq, hts, verdict,
               regTimes >>

\* The state of FlashNode, apart from netUsed.
flashVars == << fpc, fArgs, attempts, handle, consecutiveErr, ctxDone, issued,
                stage, fret, slept, watching, waited, resumedAfter >>

\* os.ReadFile of the host's cache file
GetCachedToken(host) ==
    LET data == files[getCacheFilePath(host)]
    IN  IF data = NoFile THEN [err |-> TRUE, token |-> ""]
        ELSE [err |-> FALSE, token |-> data]

\* getCachedToken(): the legacy/default entry
getCachedToken == GetCachedToken(EmptyHost)

\* os.WriteFile of the host's cache file.  It opens the file with O_TRUNC and
\* then writes: "ok" is success; "openfail" is an error before the file is
\* touched; "writefail" is an error after the truncation, which leaves the
\* file empty.  The callers only report either error.
WriteOutcomes == {"ok", "openfail", "writefail"}

\* A put that keeps an entry that is already there.
CacheTokenOnce(f, host, token, w) ==
    IF w = "ok" /\ f[getCacheFilePath(host)] = NoFile
      THEN [f EXCEPT ![getCacheFilePath(host)] = token]
      ELSE f

CacheToken(f, host, token, w) ==
    CASE w = "ok"        -> [f EXCEPT ![getCacheFilePath(host)] = token]
      [] w = "writefail" -> [f EXCEPT ![getCacheFilePath(host)] = ""]
      [] OTHER           -> f

\* os.Remove of the host's cache file; a missing file is not an error.
DeleteCachedToken(f, host) ==
    [f EXCEPT ![getCacheFilePath(host)] = NoFile]

(***************************************************************************)
(* The BMC's answers                                                       *)
(***************************************************************************)

\* Answers to POST /api/bmc/authenticate.
AuthFailures == { "neterr", "401", "403", "500", "badjson", "noid", "idnum" }

AuthOutcomes ==
    { [k |-> x, id |-> ""] : x \in AuthFailures }
        \cup { [k |-> "id", id |-> t] : t \in Tokens }

NoOutcome == [k |-> "none", id |-> ""]

\* With an empty host the URL names no server: only the transport can fail.
AuthOutcomesFor(host) ==
    IF host = EmptyHost THEN { [k |-> "neterr", id |-> ""] } ELSE AuthOutcomes

\* The error requestToken returns for a failed attempt (a chain of messages,
\* outermost first).
requestTokenErr(o) ==
    CASE o.k = "neterr"  -> <<"failed to send auth request", "transport">>
      [] o.k = "403"     -> <<"authentication failed: invalid credentials">>
      [] o.k = "401"     -> <<"authentication failed: <body>">>
      [] o.k = "500"     -> <<"authentication failed: <body>">>
      [] o.k = "badjson" -> <<"failed to parse auth response", "decode">>
      [] o.k = "noid"    -> <<"invalid auth response: missing id field">>
      [] o.k = "idnum"   -> <<"invalid auth response: id is not a string">>
      [] OTHER           -> << >>

\* Answers to the request itself: a transport error or a status code.
DoErr == [ok |-> FALSE, status |-> 0]
DoResp(s) == [ok |-> TRUE, status |-> s]

DoOutcomes(host) ==
    IF host = EmptyHost THEN {DoErr}   \* no server can be reached
    ELSE {DoErr} \cup
         { DoResp(s) : s \in {StatusOK, StatusUnauthorized, 500} }

NoRet == [kind |-> "none", status |-> 0, err |-> << >>, token |-> ""]
RetResp(s) == [kind |-> "resp", status |-> s, err |-> << >>, token |-> ""]
RetErr(e) == [kind |-> "err", status |-> 0, err |-> e, token |-> ""]
RetToken(t) == [kind |-> "token", status |-> 0, err |-> << >>, token |-> t]

\* fmt.Errorf("msg: %w", err)
Wrap(msg, err) == <<msg>> \o err

ReqEntry(tok, src) ==
    [kind |-> "req", auth |-> src # "none", token |-> tok, src |-> src,
     user |-> "", pass |-> ""]
AuthEntry(u, p) ==
    [kind |-> "auth", auth |-> FALSE, token |-> "", src |-> "none",
     user |-> u, pass |-> p]

(***************************************************************************)
(* Request.Send, getBearerToken, requestToken, ForceAuthentication         *)
(***************************************************************************)

\* No API call is in progress.
Idle == spc \in {"idle", "ret"} /\ fpc = "idle"

\* The calls inside which Request.Send runs.
InSend == op \in {"Send", "FlashNode"}

\* A new call begins: the bookkeeping of the previous one is dropped.
BeginCall(name, host, user, pass) ==
    /\ op' = name
    /\ rHost' = host
    /\ rUser' = user
    /\ rPass' = pass
    /\ origUser' = user
    /\ origPass' = pass
    /\ lastErr' = << >>
    /\ lastAuth' = NoOutcome
    /\ replies' = << >>
    /\ authFails' = 0
    /\ all401' = TRUE
    /\ filesAtStart' = files
    /\ bodies' = << >>

\* A lookup that knows the host's entry only.
hostOnlyLookup(host) ==
    LET hostTok == GetCachedToken(host)
    IN  IF ~hostTok.err
          THEN [found |-> TRUE, token |-> hostTok.token, src |-> "host"]
          ELSE [found |-> FALSE, token |-> "", src |-> "none"]

\* A lookup that never finds anything.
noLookup(host) == [found |-> FALSE, token |-> "", src |-> "none"]

\* getBearerToken, before any network traffic: the host's entry, then (for
\* a non-empty host) the legacy entry.
bearerLookup(host) ==
    LET hostTok == GetCachedToken(host)
        legacyTok == getCachedToken
    IN  IF ~hostTok.err
          THEN [found |-> TRUE, token |-> hostTok.token, src |-> "host"]
        ELSE IF host # EmptyHost /\ ~legacyTok.err
          THEN [found |-> TRUE, token |-> legacyTok.token, src |-> "legacy"]
        ELSE [found |-> FALSE, token |-> "", src |-> "none"]

\* "credentials are explicitly provided"
HasExplicit(user, pass) == user # "" /\ pass # ""

\* Send's initial check: a token is cached for the request's host.
SendPreAuthenticated(host) == ~GetCachedToken(host).err

\* A dispatcher that resends after every 401.
ResendAlways(authd) == TRUE

\* Send, on a 401: whether the same request goes out once more.
ResendAfter401(authd) == ~authd

\* A dispatcher that keeps a rejected token.
KeepAfter401(f, host, authd) == f

\* A requestToken that does not cache what it obtained.
FilesWithoutToken(f, host, token, w) == f

\* A ForceAuthentication that leaves the old token in place.
FilesKeptBeforeForce(f, host) == f

\* A loop that tries every other pair.
SkipPair(i) == IF i + 2 <= Len(credentialPairs) THEN i + 2 ELSE Len(credentialPairs)

\* Send, on a 401: what happens to the cache.
FilesAfter401(f, host, authd) ==
    IF authd THEN DeleteCachedToken(f, host) ELSE f

\* requestToken, on HTTP 200 with a string id: the cache after CacheToken.
FilesAfterToken(f, host, token, w) == CacheToken(f, host, token, w)

\* A requestToken that caches an empty token when it fails.
FilesEmptiedOnRefusal(f, host) == CacheToken(f, host, "", "ok")

\* requestToken, on each of its error returns: the cache is not touched.
FilesAfterRefusal(f, host) == f

\* ForceAuthentication, before requestToken: the cache after the delete.
FilesBeforeForce(f, host) == DeleteCachedToken(f, host)

\* ForceAuthentication, after requestToken succeeded: CacheToken once more.
FilesAfterForce(f, host, token, w) == CacheToken(f, host, token, w)

\* getBearerToken's loop over credentialPairs: the pair tried after pair i.
NextPair(i) == i + 1

\* getBearerToken's error after the last pair failed.
AllPairsFailed(last) ==
    Wrap("failed to authenticate with any credentials", last)

\* getBearerToken for (host, user, pass) up to its first network exchange,
\* called from op `name` with the requests `log` already sent.
EnterGetBearerToken(name, host, user, pass, log) ==
    LET look == bearerLookup(host)
        p1 == credentialPairs[1]
    IN  IF look.found
          THEN /\ curTok' = look.token
               /\ curSrc' = look.src
               /\ credIdx' = 0
               /\ rUser' = user
               /\ rPass' = pass
               /\ IF name = "Send"
                    THEN /\ sent' = Append(log, ReqEntry(look.token, look.src))
                         /\ spc' = "do"
                         /\ ret' = NoRet
                    ELSE /\ sent' = log
                         /\ spc' = "ret"
                         /\ ret' = RetToken(look.token)
        ELSE IF HasExplicit(user, pass)
          THEN /\ sent' = Append(log, AuthEntry(user, pass))
               /\ spc' = "auth"
               /\ credIdx' = 0
               /\ rUser' = user
               /\ rPass' = pass
               /\ curTok' = ""
               /\ curSrc' = "none"
               /\ ret' = NoRet
        ELSE   /\ sent' = Append(log, AuthEntry(p1[1], p1[2]))
               /\ spc' = "auth"
               /\ credIdx' = 1
               /\ rUser' = p1[1]
               /\ rPass' = p1[2]
               /\ curTok' = ""
               /\ curSrc' = "none"
               /\ ret' = NoRet

\* What client.Do may leave in the bytes.Buffer a request's body was read
\* from: all of it (nothing was read), a rest, or nothing.
Drained(b) ==
    CASE b = "full" -> {"full", "part", "empty"}
      [] b = "part" -> {"part", "empty"}
      [] OTHER      -> {b}

\* Request.Send, up to its loop: the cache check that sets `authenticated`.
SendStart(host, user, pass) ==
    /\ Idle
    /\ BeginCall("Send", host, user, pass)
    /\ authenticated' = SendPreAuthenticated(host)
    /\ preAuth' = SendPreAuthenticated(host)
    /\ spc' = "top"
    /\ ret' = NoRet
    /\ lastWrite' = "none"
    /\ sent' = << >>
    /\ credIdx' = 0
    /\ curTok' = ""
    /\ curSrc' = "none"
    /\ UNCHANGED << files, flashVars, netUsed >>
    /\ UNCHANGED << auxVars, watchVars, cloneVars, agentVars, pollVars >>
    /\ formBuffer' = "nil"

\* One pass over the head of Send's loop, up to the next network exchange.
SendAttempt ==
    /\ InSend
    /\ spc = "top"
    /\ IF authenticated
         THEN EnterGetBearerToken("Send", rHost, rUser, rPass, sent)
         ELSE /\ sent' = Append(sent, ReqEntry("", "none"))
              /\ spc' = "do"
              /\ curTok' = ""
              /\ curSrc' = "none"
              /\ UNCHANGED << rUser, rPass, credIdx, ret >>
    /\ UNCHANGED << files, op, rHost, origUser, origPass, authenticated,
                    preAuth, lastErr, lastAuth, replies, authFails, all401,
                    lastWrite, filesAtStart, flashVars >>
    /\ netUsed' = (netUsed \/ op = "FlashNode")
    /\ UNCHANGED << auxVars, watchVars, cloneVars, agentVars, pollVars >>
    /\ UNCHANGED << formBuffer, bodies >>

\* getBearerToken called on its own (as the package's tests do).
GetBearerTokenCall(host, user, pass) ==
    /\ Idle
    /\ op' = "getBearerToken"
    /\ rHost' = host
    /\ origUser' = user
    /\ origPass' = pass
    /\ lastErr' = << >>
    /\ lastAuth' = NoOutcome
    /\ replies' = << >>
    /\ authFails' = 0
    /\ all401' = TRUE
    /\ lastWrite' = "none"
    /\ filesAtStart' = files
    /\ authenticated' = FALSE
    /\ preAuth' = FALSE
    /\ EnterGetBearerToken("getBearerToken", host, user, pass, << >>)
    /\ UNCHANGED << files, flashVars, netUsed >>
    /\ UNCHANGED << auxVars, watchVars, cloneVars, agentVars, pollVars >>
    /\ formBuffer' = "nil"
    /\ bodies' = << >>

\* getBearerToken returns token tok to its caller.
TokenReady(tok) ==
    /\ curTok' = tok
    /\ curSrc' = "fresh"
    /\ IF InSend
         THEN /\ sent' = Append(sent, ReqEntry(tok, "fresh"))
              /\ spc' = "do"
              /\ ret' = NoRet
         ELSE /\ sent' = sent
              /\ spc' = "ret"
              /\ ret' = RetToken(tok)

\* getBearerToken returns error e to its caller.
TokenFailed(e) ==
    /\ UNCHANGED << curTok, curSrc, sent >>
    /\ spc' = "ret"
    /\ ret' = IF InSend THEN RetErr(Wrap("failed to get bearer token", e))
              ELSE RetErr(e)

\* The BMC answers the authenticate request in flight (requestToken from
\* client.Do on), and the caller of requestToken goes on to its next
\* network exchange or returns.  w is the outcome of requestToken's
\* CacheToken, w2 that of ForceAuthentication's.
AuthReply(o, w, w2) ==
    /\ spc = "auth"
    /\ o \in AuthOutcomesFor(rHost)
    /\ lastAuth' = o
    /\ all401' = (all401 /\ o.k = "401")
    /\ authFails' = IF o.k = "id" THEN authFails ELSE authFails + 1
    /\ IF o.k = "id"
         THEN IF op = "ForceAuthentication"
                THEN /\ files' = FilesAfterForce(
                                    FilesAfterToken(files, rHost, o.id, w),
                                    rHost, o.id, w2)
                     /\ lastWrite' = w2
                     /\ curTok' = o.id
                     /\ curSrc' = "fresh"
                     /\ spc' = "ret"
                     /\ ret' = RetToken(o.id)
                     /\ UNCHANGED << sent, rUser, rPass, credIdx, lastErr >>
                ELSE /\ w2 = "ok"
                     /\ files' = FilesAfterToken(files, rHost, o.id, w)
                     /\ lastWrite' = w
                     /\ TokenReady(o.id)
                     /\ UNCHANGED << rUser, rPass, credIdx, lastErr >>
         ELSE /\ w = "ok" /\ w2 = "ok"
              /\ files' = FilesAfterRefusal(files, rHost)
              /\ UNCHANGED lastWrite
              /\ IF op = "ForceAuthentication" \/ credIdx = 0
                   THEN /\ IF op = "ForceAuthentication"
                             THEN /\ spc' = "ret"
                                  /\ ret' = RetErr(requestTokenErr(o))
                                  /\ UNCHANGED << curTok, curSrc, sent >>
                             ELSE TokenFailed(requestTokenErr(o))
                        /\ UNCHANGED << rUser, rPass, credIdx, lastErr >>
                 ELSE IF credIdx < Len(credentialPairs)
                   THEN /\ lastErr' = requestTokenErr(o)
                        /\ credIdx' = NextPair(credIdx)
                        /\ rUser' = credentialPairs[NextPair(credIdx)][1]
                        /\ rPass' = credentialPairs[NextPair(credIdx)][2]
                        /\ sent' = Append(sent,
                                     AuthEntry(credentialPairs[NextPair(credIdx)][1],
                                               credentialPairs[NextPair(credIdx)][2]))
                        /\ UNCHANGED << spc, ret, curTok, curSrc >>
                 ELSE   /\ lastErr' = requestTokenErr(o)
                        /\ rUser' = origUser
                        /\ rPass' = origPass
                        /\ TokenFailed(AllPairsFailed(requestTokenErr(o)))
                        /\ UNCHANGED credIdx
    /\ UNCHANGED << op, rHost, origUser, origPass, authenticated, preAuth,
                    replies, filesAtStart, flashVars, netUsed >>
    /\ UNCHANGED << auxVars, watchVars, cloneVars, agentVars, pollVars >>
    /\ UNCHANGED << formBuffer, bodies >>

\* The BMC answers the request in flight (Send from client.Do to the end of
\* the loop body).
DoReply(o, d) ==
    /\ InSend
    /\ spc = "do"
    /\ o \in DoOutcomes(rHost)
    /\ (fpc = "poll" /\ ctxDone) => ~o.ok
    /\ replies' = Append(replies, o)
    /\ all401' = (all401 /\ o.ok /\ o.status = StatusUnauthorized)
    /\ IF ~o.ok
         THEN /\ spc' = "ret"
              /\ ret' = RetErr(Wrap("failed to send request", <<"transport">>))
              /\ UNCHANGED << files, authenticated >>
       ELSE IF o.status = StatusUnauthorized
         THEN /\ files' = FilesAfter401(files, rHost, authenticated)
              /\ IF ResendAfter401(authenticated)
                   THEN /\ authenticated' = TRUE
                        /\ spc' = "top"
                        /\ ret' = NoRet
                   ELSE /\ spc' = "ret"
                        /\ ret' = RetResp(o.status)
                        /\ UNCHANGED authenticated
       ELSE   /\ spc' = "ret"
              /\ ret' = RetResp(o.status)
              /\ UNCHANGED << files, authenticated >>
    /\ UNCHANGED << op, rHost, rUser, rPass, origUser, origPass, preAuth,
                    credIdx, lastErr, curTok, curSrc, sent, lastAuth,
                    authFails, lastWrite, filesAtStart, flashVars, netUsed >>
    /\ UNCHANGED << auxVars, watchVars, cloneVars, agentVars, pollVars >>
    /\ d \in Drained(formBuffer)
    /\ bodies' = Append(bodies, formBuffer)
    /\ formBuffer' = d

\* Request.ForceAuthentication / Client.ForceAuthentication, up to the
\* authenticate request of requestToken.
ForceAuthenticationStart(host, user, pass) ==
    /\ Idle
    /\ BeginCall("ForceAuthentication", host, user, pass)
    /\ files' = FilesBeforeForce(files, host)
    /\ sent' = << AuthEntry(user, pass) >>
    /\ spc' = "auth"
    /\ ret' = NoRet
    /\ lastWrite' = "none"
    /\ credIdx' = 0
    /\ authenticated' = FALSE
    /\ preAuth' = FALSE
    /\ curTok' = ""
    /\ curSrc' = "none"
    /\ UNCHANGED << flashVars, netUsed >>
    /\ UNCHANGED << auxVars, watchVars, cloneVars, agentVars, pollVars >>
    /\ formBuffer' = "nil"

\* The exported cache functions called directly (tests, the auth commands).
CacheTokenCall(host, token, w) ==
    /\ Idle
    /\ BeginCall("CacheToken", host, "", "")
    /\ files' = CacheToken(files, host, token, w)
    /\ lastWrite' = w
    /\ ret' = IF w = "ok" THEN NoRet
              ELSE RetErr(<<"failed to write token", "io">>)
    /\ spc' = "ret"
    /\ sent' = << >>
    /\ credIdx' = 0
    /\ authenticated' = FALSE
    /\ preAuth' = FALSE
    /\ curTok' = token
    /\ curSrc' = "none"
    /\ UNCHANGED << flashVars, netUsed >>
    /\ UNCHANGED << auxVars, watchVars, cloneVars, agentVars, pollVars >>
    /\ formBuffer' = "nil"

DeleteCachedTokenCall(host) ==
    /\ Idle
    /\ BeginCall("DeleteCachedToken", host, "", "")
    /\ files' = DeleteCachedToken(files, host)
    /\ ret' = NoRet
    /\ lastWrite' = "none"
    /\ spc' = "ret"
    /\ sent' = << >>
    /\ credIdx' = 0
    /\ authenticated' = FALSE
    /\ preAuth' = FALSE
    /\ curTok' = ""
    /\ curSrc' = "none"
    /\ UNCHANGED << flashVars, netUsed >>
    /\ UNCHANGED << auxVars, watchVars, cloneVars, agentVars, pollVars >>
    /\ formBuffer' = "nil"

(***************************************************************************)
(* Client.FlashNode and watchFlashingProgress                              *)
(***************************************************************************)

\* The client's host (NewClient refuses an empty one).
FlashHost == <<"c">>

\* The digest sha256 computes over the image file, and the digests a caller
\* may supply: none, that one, another one.
ComputedSha == "good"
SuppliedSha == { "", "good", "bad" }

\* What can go wrong with the image file: nothing, os.Open, file.Stat,
\* io.Copy into the hash, file.Seek.
ImageStates == { "ok", "noopen", "nostat", "noread", "noseek" }

\* A JSON number decoded into a float64: its integer part and its fraction
\* (in tenths).  The zero value of `var handle float64`.
Float(w, f) == [whole |-> w, frac |-> f]
ZeroHandle == Float(0, 0)

\* Handles the BMC may issue: 7 and 8.5.
Handles == { Float(7, 0), Float(8, 5) }

\* int(handle) for a non-negative float64: truncation.
int(h) == h.whole

\* Bodies of the answer to the initiate request.
InitBodies ==
    { [k |-> "badjson", h |-> ZeroHandle], [k |-> "nohandle", h |-> ZeroHandle] }
        \cup { [k |-> "handle", h |-> x] : x \in Handles }

\* Bodies of the answer to a progress poll: undecodable, Transferring,
\* Transferring together with Done, Done, Error with an object payload,
\* Error with a string payload, anything else.
PollBodies ==
    { "badjson", "transferring", "both", "done", "error", "errorstr", "other" }

maxRetries == 20

\* c.newRequest(): a cached token for the host, or full client credentials.
newRequestOK(host, user, pass) ==
    (host # EmptyHost /\ ~GetCachedToken(host).err) \/ HasExplicit(user, pass)

\* Request.Send is entered for the request (host, user, pass): the cache
\* check that sets `authenticated`, and a fresh record of the call.
StartSend(host, user, pass) ==
    /\ rHost' = host
    /\ rUser' = user
    /\ rPass' = pass
    /\ authenticated' = SendPreAuthenticated(host)
    /\ preAuth' = SendPreAuthenticated(host)
    /\ spc' = "top"
    /\ sent' = << >>
    /\ replies' = << >>
    /\ credIdx' = 0
    /\ curTok' = ""
    /\ curSrc' = "none"
    /\ lastErr' = << >>
    /\ lastAuth' = NoOutcome
    /\ authFails' = 0
    /\ all401' = TRUE
    /\ lastWrite' = "none"
    /\ filesAtStart' = files
    /\ ret' = NoRet
    /\ bodies' = << >>

\* Send has returned and its result was consumed: nothing of the call is
\* left but the request's fields and the cache.
SendConsumed ==
    /\ spc' = "idle"
    /\ sent' = << >>
    /\ replies' = << >>
    /\ credIdx' = 0
    /\ curTok' = ""
    /\ curSrc' = "none"
    /\ lastErr' = << >>
    /\ lastAuth' = NoOutcome
    /\ authFails' = 0
    /\ all401' = TRUE
    /\ lastWrite' = "none"
    /\ filesAtStart' = files
    /\ ret' = NoRet
    /\ UNCHANGED << authenticated, preAuth >>
    /\ bodies' = << >>

\* FlashNode returns e (<< >> is nil).
FlashReturn(e) ==
    /\ fpc' = "done"
    /\ fret' = e

\* A digest check that accepts everything.
ChecksumIgnored(sha) == FALSE

\* The digest check: a digest was supplied and differs from the computed one.
ChecksumMismatch(sha) == sha # "" /\ ComputedSha # sha

\* What FlashNode returns before its first request, << >> if it goes on.
FlashPreflight(node, path, img, sha, user, pass) ==
    IF node < 1 \/ node > 4 THEN <<"invalid node number">>
    ELSE IF path = "" THEN <<"image path is required">>
    ELSE IF img = "noopen" THEN <<"failed to open image file", "os">>
    ELSE IF img = "nostat" THEN <<"failed to get image file info", "os">>
    ELSE IF sha # "" /\ img = "noread"
      THEN <<"failed to calculate SHA256", "io">>
    ELSE IF ChecksumMismatch(sha) THEN <<"SHA256 checksum mismatch">>
    ELSE IF sha # "" /\ img = "noseek" THEN <<"failed to reset file", "io">>
    ELSE IF ~newRequestOK(FlashHost, user, pass)
      THEN <<"failed to create request", "no credentials provided">>
    ELSE << >>

\* FlashNode from its entry to the first Send of the initiate request.
FlashNodeStart(node, path, img, sha, user, pass) ==
    /\ Idle
    /\ op' = "FlashNode"
    /\ origUser' = user
    /\ origPass' = pass
    /\ fArgs' = [wrongDigest |-> (sha # "" /\ sha # ComputedSha),
                 readable |-> (node \in 1..4 /\ path # ""
                                 /\ img \in {"ok", "noseek"})]
    /\ attempts' = 0
    /\ handle' = ZeroHandle
    /\ consecutiveErr' = 0
    /\ issued' = ZeroHandle
    /\ stage' = 0
    /\ netUsed' = FALSE
    /\ LET e == FlashPreflight(node, path, img, sha, user, pass)
       IN  IF e # << >>
             THEN /\ FlashReturn(e)
                  /\ rHost' = FlashHost
                  /\ rUser' = user
                  /\ rPass' = pass
                  /\ spc' = "idle"
                  /\ sent' = << >>
                  /\ replies' = << >>
                  /\ credIdx' = 0
                  /\ curTok' = ""
                  /\ curSrc' = "none"
                  /\ lastErr' = << >>
                  /\ lastAuth' = NoOutcome
                  /\ authFails' = 0
                  /\ all401' = TRUE
                  /\ lastWrite' = "none"
                  /\ filesAtStart' = files
                  /\ ret' = NoRet
                  /\ bodies' = << >>
                  /\ UNCHANGED << authenticated, preAuth >>
             ELSE /\ fpc' = "init"
                  /\ fret' = << >>
                  /\ StartSend(FlashHost, user, pass)
    /\ UNCHANGED << files, ctxDone >>
    /\ UNCHANGED << auxVars, watchVars, cloneVars, agentVars, pollVars >>
    /\ formBuffer' = "nil"
    /\ slept' = 0
    /\ waited' = 0
    /\ resumedAfter' = 0
    /\ watching' = FALSE

\* The initiate attempt failed: the error FlashNode would return for it,
\* << >> if the attempt succeeded.
InitFailure(r, body) ==
    IF r.kind = "err" THEN Wrap("failed to send request after retries", r.err)
    ELSE IF r.status # StatusOK
      THEN <<"failed to initiate flash operation", "status">>
    ELSE IF body.k = "badjson" THEN <<"failed to parse response", "decode">>
    ELSE IF body.k # "handle" THEN <<"invalid response: missing handle">>
    ELSE << >>

\* An upload phase that takes any answer for a success.
UploadAnyStatus(r) ==
    IF r.kind = "err" THEN Wrap("failed to upload file after retries", r.err)
    ELSE << >>

\* The upload attempt failed: the error FlashNode would return for it.
UploadFailure(r) ==
    IF r.kind = "err" THEN Wrap("failed to upload file after retries", r.err)
    ELSE IF r.status # StatusOK THEN <<"failed to upload file", "status">>
    ELSE << >>

\* time.Sleep between attempts, in seconds.
InitDelay == 3
UploadDelay == 5

\* A retry loop that does not wait.
NoSleep(t) == t

\* The seconds slept in the loop once another delay is over.
SleptAfterInit(t) == t + InitDelay
SleptAfterUpload(t) == t + UploadDelay

\* The initiate attempt succeeded and nothing stops the upload from starting.
UploadStarts(r, body, img) ==
    /\ InitFailure(r, body) = << >>
    /\ img = "ok"
    /\ newRequestOK(FlashHost, origUser, origPass)

\* A retry loop that gives up after the second attempt.
RetryOnce(n) == n < 1

\* Both retry loops: another attempt follows a failed one.
RetryAllowed(n) == n < 2

\* The Send of an initiate attempt has returned (loop body of phase 1, and on
\* success everything up to the first Send of the upload).
FlashInitDone(body, img) ==
    /\ op = "FlashNode" /\ fpc = "init" /\ spc = "ret"
    /\ body \in InitBodies
    /\ img \in {"ok", "noseek", "noread"}
    /\ LET e == InitFailure(ret, body)
           answered == ret.kind = "resp" /\ ret.status = StatusOK
                          /\ body.k = "handle"
       IN  /\ stage' = IF answered /\ stage = 0 THEN 1 ELSE stage
           /\ issued' = IF answered /\ stage = 0 THEN body.h ELSE issued
           /\ IF e # << >>
                THEN /\ img = "ok"
                     /\ IF RetryAllowed(attempts)
                          THEN /\ attempts' = attempts + 1
                               /\ StartSend(rHost, rUser, rPass)
                               /\ UNCHANGED << fpc, fret >>
                          ELSE /\ FlashReturn(e)
                               /\ UNCHANGED << attempts, rHost, rUser, rPass,
                                    authenticated, preAuth, spc, sent, replies,
                                    credIdx, curTok, curSrc, lastErr, lastAuth,
                                    authFails, all401, lastWrite, filesAtStart,
                                    ret, bodies >>
                     /\ UNCHANGED handle
                ELSE /\ handle' = body.h
                     /\ IF img # "ok"
                          THEN /\ FlashReturn(IF img = "noseek"
                                    THEN <<"failed to reset file", "io">>
                                    ELSE <<"failed to copy file to form", "io">>)
                               /\ UNCHANGED << attempts, rHost, rUser, rPass,
                                    authenticated, preAuth, spc, sent, replies,
                                    credIdx, curTok, curSrc, lastErr, lastAuth,
                                    authFails, all401, lastWrite, filesAtStart,
                                    ret, bodies >>
                        ELSE IF ~newRequestOK(FlashHost, origUser, origPass)
                          THEN /\ FlashReturn(<<"failed to create upload request",
                                                "no credentials provided">>)
                               /\ UNCHANGED << attempts, rHost, rUser, rPass,
                                    authenticated, preAuth, spc, sent, replies,
                                    credIdx, curTok, curSrc, lastErr, lastAuth,
                                    authFails, all401, lastWrite, filesAtStart,
                                    ret, bodies >>
                        ELSE   /\ fpc' = "upload"
                               /\ attempts' = 0
                               /\ StartSend(FlashHost, origUser, origPass)
                               /\ UNCHANGED fret
    /\ UNCHANGED << files, op, origUser, origPass, fArgs, consecutiveErr,
                    ctxDone, netUsed >>
    /\ UNCHANGED << auxVars, watchVars, cloneVars, agentVars, pollVars >>
    /\ formBuffer' = IF UploadStarts(ret, body, img) THEN "full" ELSE formBuffer
    /\ slept' = IF InitFailure(ret, body) # << >> /\ RetryAllowed(attempts)
                  THEN SleptAfterInit(slept)
                ELSE IF UploadStarts(ret, body, img) THEN 0 ELSE slept
    /\ UNCHANGED << watching, waited, resumedAfter >>

\* The Send of an upload attempt has returned (loop body of phase 2, and on
\* success the entry of watchFlashingProgress up to its loop).
FlashUploadDone ==
    /\ op = "FlashNode" /\ fpc = "upload" /\ spc = "ret"
    /\ LET e == UploadFailure(ret)
           answered == ret.kind = "resp" /\ ret.status = StatusOK
       IN  /\ stage' = IF answered /\ stage = 1 /\ int(handle) = int(issued)
                         THEN 2 ELSE stage
           /\ IF e # << >>
                THEN IF RetryAllowed(attempts)
                       THEN /\ attempts' = attempts + 1
                            /\ StartSend(rHost, rUser, rPass)
                            /\ UNCHANGED << fpc, fret >>
                       ELSE /\ FlashReturn(e)
                            /\ UNCHANGED << attempts, rHost, rUser, rPass,
                                 authenticated, preAuth, spc, sent, replies,
                                 credIdx, curTok, curSrc, lastErr, lastAuth,
                                 authFails, all401, lastWrite, filesAtStart,
                                 ret, bodies >>
                ELSE /\ IF ~newRequestOK(FlashHost, origUser, origPass)
                          THEN FlashReturn(<<"failed to create progress request",
                                             "no credentials provided">>)
                          ELSE /\ fpc' = "tick"
                               /\ UNCHANGED fret
                     /\ rHost' = FlashHost
                     /\ rUser' = origUser
                     /\ rPass' = origPass
                     /\ SendConsumed
                     /\ UNCHANGED attempts
    /\ UNCHANGED << files, op, origUser, origPass, fArgs, handle,
                    consecutiveErr, ctxDone, issued, netUsed >>
    /\ UNCHANGED << auxVars, watchVars, cloneVars, agentVars, pollVars >>
    /\ formBuffer' = IF UploadFailure(ret) = << >> THEN "nil" ELSE formBuffer
    /\ slept' = IF UploadFailure(ret) # << >> /\ RetryAllowed(attempts)
                  THEN SleptAfterUpload(slept) ELSE slept
    /\ watching' = (UploadFailure(ret) = << >>)
    /\ UNCHANGED << waited, resumedAfter >>

\* The outer context's deadline passes (at any moment of the watch).
DeadlineExpires ==
    /\ op = "FlashNode" /\ fpc \in {"tick", "poll"}
    /\ ~ctxDone
    /\ ctxDone' = TRUE
    /\ UNCHANGED << files, op, rHost, rUser, rPass, origUser, origPass, spc,
                    authenticated, preAuth, credIdx, lastErr, curTok, curSrc,
                    sent, lastAuth, replies, authFails, all401, lastWrite,
                    filesAtStart, ret, bodies, fpc, fArgs, attempts, handle,
                    consecutiveErr, issued, stage, netUsed, fret >>
    /\ UNCHANGED << auxVars, watchVars, cloneVars, agentVars, pollVars >>
    /\ UNCHANGED << formBuffer, slept, watching, waited, resumedAfter >>

\* The select of the watch loop takes its ctx.Done() case.
WatchCancelled ==
    /\ op = "FlashNode" /\ fpc = "tick"
    /\ ctxDone
    /\ FlashReturn(<<"context deadline exceeded">>)
    /\ UNCHANGED << files, op, rHost, rUser, rPass, origUser, origPass, spc,
                    authenticated, preAuth, credIdx, lastErr, curTok, curSrc,
                    sent, lastAuth, replies, authFails, all401, lastWrite,
                    filesAtStart, ret, bodies, fArgs, attempts, handle, consecutiveErr,
                    ctxDone, issued, stage, netUsed >>
    /\ UNCHANGED << auxVars, watchVars, cloneVars, agentVars, pollVars >>
    /\ UNCHANGED << formBuffer, slept, watching, waited, resumedAfter >>

\* The select of the watch loop takes its ticker case: progressReq.Send().
WatchTick ==
    /\ op = "FlashNode" /\ fpc = "tick"
    /\ fpc' = "poll"
    /\ StartSend(rHost, rUser, rPass)
    /\ UNCHANGED << files, op, origUser, origPass, fArgs, attempts, handle,
                    consecutiveErr, ctxDone, issued, stage, netUsed, fret >>
    /\ UNCHANGED << auxVars, watchVars, cloneVars, agentVars, pollVars >>
    /\ UNCHANGED << formBuffer, slept, watching, waited >>
    /\ resumedAfter' = 0

\* A watch that gives up one error later.
TooManyErrorsLate(n) == n > maxRetries

\* A poll failed n times in a row: watch gives up.
TooManyErrors(n) == n >= maxRetries

\* A counter that a failed poll leaves alone.
ErrorsNeverCounted(r, n) == IF r.kind = "err" THEN n ELSE 0

\* A counter that a successful poll leaves alone.
ErrorsNeverReset(r, n) == IF r.kind = "err" THEN n + 1 ELSE n

\* consecutiveErr after a poll with the result r.
ErrorsAfterPoll(r, n) == IF r.kind = "err" THEN n + 1 ELSE 0

\* A watch that waits one second per consecutive error.
BackoffLinear(n) == n

\* The sleep after the n-th consecutive failed poll, in seconds.
Backoff(n) == IF n \div 2 > 10 THEN 10 ELSE n \div 2

\* The seconds watch sleeps after a poll with the result r that followed n
\* consecutive failures.
PollBackoff(r, n) ==
    IF r.kind = "err" /\ ~TooManyErrors(n + 1) THEN Backoff(n + 1) ELSE 0

\* The count in "Resumed progress monitoring after %d errors" (0: no message).
Resumed(r, n) == IF r.kind = "err" THEN 0 ELSE n

\* What a decoded poll answer makes watch return: "nil", "error", or "" when
\* the loop goes on.
PollVerdict(body) ==
    CASE body \in {"transferring", "both"} -> ""
      [] body = "done"         -> "nil"
      [] body = "error"        -> "error"
      [] OTHER                 -> ""

\* What the ticker case makes watch do with the result r of a poll after n
\* consecutive failures: return an error, return nil (<< >>), or go round
\* the loop again (<<"continue">>).
PollFailure(r, n, body) ==
    IF r.kind = "err"
      THEN IF TooManyErrors(n + 1)
             THEN Wrap("too many consecutive errors", r.err)
             ELSE <<"continue">>
    ELSE IF body = "badjson" THEN <<"continue">>
    ELSE IF PollVerdict(body) = "nil" THEN << >>
    ELSE IF PollVerdict(body) = "error"
      THEN <<"error occurred during flashing", "payload">>
    ELSE <<"continue">>

\* The Send of a poll has returned (the rest of the ticker case).
FlashPollDone(body) ==
    /\ op = "FlashNode" /\ fpc = "poll" /\ spc = "ret"
    /\ body \in PollBodies
    /\ ret.kind = "err" => body = "other"
    /\ LET e == PollFailure(ret, consecutiveErr, body)
       IN  IF e = <<"continue">>
             THEN /\ fpc' = "tick"
                  /\ SendConsumed
                  /\ UNCHANGED fret
             ELSE /\ FlashReturn(e)
                  /\ UNCHANGED << spc, authenticated, preAuth, credIdx, lastErr,
                       curTok, curSrc, sent, lastAuth, replies, authFails,
                       all401, lastWrite, filesAtStart, ret, bodies >>
    /\ consecutiveErr' = ErrorsAfterPoll(ret, consecutiveErr)
    /\ stage' = IF ret.kind = "resp" /\ body = "done" /\ stage = 2
                  THEN 3 ELSE stage
    /\ UNCHANGED << files, op, rHost, rUser, rPass, origUser, origPass, fArgs,
                    attempts, handle, ctxDone, issued, netUsed >>
    /\ UNCHANGED << auxVars, watchVars, cloneVars, agentVars, pollVars >>
    /\ UNCHANGED << formBuffer, slept, watching >>
    /\ waited' = PollBackoff(ret, consecutiveErr)
    /\ resumedAfter' = Resumed(ret, consecutiveErr)

\* JSON values of a field of the Transferring object: a number, a string
\* (its characters), or no such field.
Num(x) == [t |-> "number", v |-> x, s |-> << >>]
Str(q) == [t |-> "string", v |-> ZeroHandle, s |-> q]
Absent == [t |-> "absent", v |-> ZeroHandle, s |-> << >>]

\* The outcome of a progress poll: a failed Send ("err") or the kind of body
\* of the answer, with the id and bytes_written fields of Transferring.
Answer(k, id, bytes) == [k |-> k, id |-> id, bytes |-> bytes]
NoAnswer == Answer("none", Absent, Absent)

\* A float64 that is the quotient of two integers (d > 0), kept exact.
Rat(n, d) == [num |-> n, den |-> d]

\* The ETA field of a "Progress:" line: "calculating...", or a number of
\* whole seconds.
NoEta == [shown |-> FALSE, secs |-> 0]

\* etaStr for an image of `size` bytes with b bytes written and the speed sp:
\* time.Duration(etaSeconds) drops the fraction of a second, and a duration
\* of 0 is shown as "calculating...".
Eta(size, b, sp) ==
    IF sp.num > 0
      THEN LET secs == ((size - b) * sp.den) \div sp.num
           IN  IF secs > 0 THEN [shown |-> TRUE, secs |-> secs] ELSE NoEta
      ELSE NoEta

\* A Request that does not exist (yet).
NoRequest == [exists |-> FALSE]

\* No concurrent use of the cache has begun.
AuxInit ==
    /\ writers = [w \in {} |-> 0]
    /\ readResult = [err |-> TRUE, token |-> ""]
    /\ written = {}

\* watchFlashingProgress has not been entered.
WatchIdle ==
    /\ fileSize = 0
    /\ verifying = FALSE
    /\ lastBytes = 0
    /\ lastUpdateTime = 0
    /\ speedWindow = << >>
    /\ clock = 0
    /\ printed = 0
    /\ polled = NoAnswer
    /\ notices = 0
    /\ progress = Rat(0, 1)
    /\ speed = Rat(0, 1)
    /\ rates = << >>
    /\ eta = NoEta

\* No Request has been built.
CloneIdle ==
    /\ orig = NoRequest
    /\ clone = NoRequest
    /\ heap = << >>
    /\ lastMut = "none"
    /\ steps = 0

\* No progress poll is on the wire.
PollIdle ==
    /\ inflight = FALSE
    /\ elapsed = 0

\* The goroutines that serve requests of the agent, and the tokens and
\* secrets that requests carry ("s3cret" is the configured one).
Handlers == {1, 2}
AgentTokens == {"t1"}
AgentSecret == "s3cret"
AuthConfigs ==
    [Secret : {AgentSecret, "wrong"}, Token : AgentTokens \cup {""}]
NoAuth == [Secret |-> "", Token |-> ""]

\* An entry of authCache.
NoEntry == [exists |-> FALSE, t |-> 0]
Entry(t) == [exists |-> TRUE, t |-> t]

\* NewAgent: an empty authCache, no request being served.
AgentStart ==
    /\ authCache = [t \in AgentTokens |-> NoEntry]
    /\ agentClock = 0
    /\ hpc = [h \in Handlers |-> "idle"]
    /\ hreq = [h \in Handlers |-> NoAuth]
    /\ hts = [h \in Handlers |-> 0]
    /\ verdict = [h \in Handlers |-> "none"]
    /\ regTimes = [t \in AgentTokens |-> {}]

\* No agent is configured to expire tokens.
AgentIdle ==
    /\ AgentStart
    /\ expiry = 0

\* No API call has been made yet.
IdleInit ==
    /\ op = "none"
    /\ rHost = EmptyHost
    /\ rUser = ""
    /\ rPass = ""
    /\ origUser = ""
    /\ origPass = ""
    /\ spc = "idle"
    /\ authenticated = FALSE
    /\ preAuth = FALSE
    /\ credIdx = 0
    /\ lastErr = << >>
    /\ curTok = ""
    /\ curSrc = "none"
    /\ sent = << >>
    /\ lastAuth = NoOutcome
    /\ replies = << >>
    /\ authFails = 0
    /\ all401 = TRUE
    /\ lastWrite = "none"
    /\ ret = NoRet
    /\ fpc = "idle"
    /\ fArgs = [wrongDigest |-> FALSE, readable |-> FALSE]
    /\ attempts = 0
    /\ handle = ZeroHandle
    /\ consecutiveErr = 0
    /\ ctxDone = FALSE
    /\ issued = ZeroHandle
    /\ stage = 0
    /\ netUsed = FALSE
    /\ fret = << >>
    /\ formBuffer = "nil"
    /\ bodies = << >>
    /\ slept = 0
    /\ waited = 0
    /\ resumedAfter = 0
    /\ watching = FALSE

Init ==
    /\ files = [n \in FileNames |-> NoFile]
    /\ filesAtStart = [n \in FileNames |-> NoFile]
    /\ IdleInit
    /\ AuxInit
    /\ WatchIdle
    /\ CloneIdle
    /\ PollIdle
    /\ AgentIdle

Next ==
    \/ \E h \in Hosts, c \in CallerCreds : SendStart(h, c[1], c[2])
    \/ SendAttempt
    \/ \E o \in AuthOutcomesFor(rHost), w \in WriteOutcomes, w2 \in WriteOutcomes :
           AuthReply(o, w, w2)
    \/ \E o \in DoOutcomes(rHost), d \in Drained(formBuffer) : DoReply(o, d)
    \/ \E h \in Hosts, c \in CallerCreds : GetBearerTokenCall(h, c[1], c[2])
    \/ \E h \in Hosts, c \in CallerCreds : ForceAuthenticationStart(h, c[1], c[2])
    \/ \E h \in Hosts, t \in Tokens, w \in WriteOutcomes : CacheTokenCall(h, t, w)
    \/ \E h \in Hosts : DeleteCachedTokenCall(h)

Spec == Init /\ [][Next]_vars

\* Another process (a logout, or a Send of its own that was answered 401)
\* removes the entry of the request's host while Send is under way.
OtherProcessDeletes ==
    /\ op = "Send"
    /\ spc \in {"top", "auth", "do"}
    /\ files[getCacheFilePath(rHost)] # NoFile
    /\ files' = DeleteCachedToken(files, rHost)
    /\ UNCHANGED << callVars, flashVars, netUsed, auxVars, watchVars,
                    cloneVars, agentVars, pollVars >>

\* Send on a machine where other processes use the cache too.
NextRace ==
    \/ \E h \in Hosts, c \in CallerCreds : SendStart(h, c[1], c[2])
    \/ SendAttempt
    \/ \E o \in AuthOutcomesFor(rHost), w \in WriteOutcomes, w2 \in WriteOutcomes :
           AuthReply(o, w, w2)
    \/ \E o \in DoOutcomes(rHost), d \in Drained(formBuffer) : DoReply(o, d)
    \/ \E h \in Hosts, t \in Tokens, w \in WriteOutcomes : CacheTokenCall(h, t, w)
    \/ OtherProcessDeletes

SpecRace == Init /\ [][NextRace]_vars

(***************************************************************************)
(* Properties of Request.Send and of credential resolution                 *)
(***************************************************************************)

IsReq(e) == e.kind = "req"
IsAuth(e) == e.kind = "auth"

\* The transmissions of the request itself, and the authenticate requests,
\* of the current call.
Reqs == SelectSeq(sent, IsReq)
Auths == SelectSeq(sent, IsAuth)

SendReturned == op = "Send" /\ spc = "ret"

Is401(o) == o.ok /\ o.status = StatusUnauthorized
Is200(o) == o.ok /\ o.status = StatusOK

HostFile == getCacheFilePath(rHost)
LegacyFile == getCacheFilePath(EmptyHost)

\* C3 (as claimed): one Send transmits the request at most twice; the resend
\* happens only after a 401 answer to an attempt sent without a token; and
\* when the BMC answers 401 to everything, Send returns the last 401
\* response to its caller.
C3_Original ==
    op = "Send" =>
        /\ Len(Reqs) <= 2
        /\ Len(Reqs) = 2 => (~Reqs[1].auth /\ Is401(replies[1]))
        /\ (spc = "ret" /\ all401) => ret = RetResp(StatusUnauthorized)

\* C3 (amended): one Send transmits the request at most twice; the second
\* transmission happens only after a 401 answer to a first one sent without
\* a token, and carries a token; a 401 answer to a transmission that carried
\* a token is returned to the caller as it is; when a 401 answer to the
\* token-less transmission is followed by authenticate requests that are
\* all refused, Send makes no second transmission and returns the
\* authentication error instead of a 401 response.
C3_SendAtMostTwice ==
    op = "Send" =>
        /\ Len(Reqs) <= 2
        /\ Len(replies) <= Len(Reqs)
        /\ Len(Reqs) = 2 =>
              (~Reqs[1].auth /\ Is401(replies[1]) /\ Reqs[2].auth)
        /\ (spc = "ret" /\ replies # << >> /\ Is401(replies[Len(replies)])
              /\ Reqs[Len(replies)].auth)
                => ret = RetResp(StatusUnauthorized)
        /\ (spc = "ret" /\ Len(Reqs) = 1 /\ replies # << >>
              /\ ~Reqs[1].auth /\ Is401(replies[1]))
                => (ret.kind = "err" /\ authFails >= 1)

\* A Send whose two transmissions were both answered 401 has returned.
C3_Witness ==
    /\ SendReturned
    /\ Len(Reqs) = 2
    /\ Is401(replies[1]) /\ Is401(replies[2])
    /\ ret = RetResp(StatusUnauthorized)

\* C4 (as claimed): a Send whose first transmission went out without a token
\* (none cached for the host), was answered 401, and whose following
\* exchanges were answered 200, issued exactly one authenticate request,
\* resent the request once with the newly obtained token, and returned the
\* 200 response.
C4_Original ==
    (SendReturned /\ ~preAuth /\ authFails = 0
        /\ Len(replies) = 2 /\ Is401(replies[1]) /\ Is200(replies[2]))
      => /\ Len(Auths) = 1
         /\ Len(Reqs) = 2
         /\ lastAuth.k = "id"
         /\ Reqs[2].auth /\ Reqs[2].token = lastAuth.id
         /\ ret = RetResp(StatusOK)

\* C4 (amended): under the same conditions, if the legacy/default entry holds
\* no token either, Send issued exactly one authenticate request, resent the
\* request once with the newly obtained token and returned the 200 response;
\* if the legacy/default entry holds a token, Send issued no authenticate
\* request, resent the request once with the legacy token and returned the
\* 200 response.
C4_ReauthOnce ==
    (SendReturned /\ ~preAuth /\ authFails = 0
        /\ Len(replies) = 2 /\ Is401(replies[1]) /\ Is200(replies[2]))
      => /\ Len(Reqs) = 2
         /\ ~Reqs[1].auth /\ Reqs[2].auth
         /\ ret = RetResp(StatusOK)
         /\ IF filesAtStart[LegacyFile] = NoFile
              THEN /\ Len(Auths) = 1
                   /\ lastAuth.k = "id"
                   /\ Reqs[2].token = lastAuth.id
                   /\ Reqs[2].src = "fresh"
                   /\ sent[2] = Auths[1]
              ELSE /\ Len(Auths) = 0
                   /\ Reqs[2].token = filesAtStart[LegacyFile]
                   /\ Reqs[2].src = "legacy"

\* A 401-then-200 Send that authenticated once in between has returned.
C4_Witness ==
    /\ SendReturned /\ ~preAuth /\ authFails = 0
    /\ Len(replies) = 2 /\ Is401(replies[1]) /\ Is200(replies[2])
    /\ Len(Auths) = 1
    /\ Reqs[2].token = "t1"
    /\ ret = RetResp(StatusOK)

SourceFile(e) == IF e.src = "legacy" THEN LegacyFile ELSE HostFile

\* C6 (as claimed): whenever Send returns a 401 response for an exchange that
\* carried a token read from the cache, the entry it was read from (the
\* host's, or the legacy/default one) no longer holds that token.
C6_Original ==
    (SendReturned /\ ret = RetResp(StatusUnauthorized)
        /\ Reqs[Len(Reqs)].src \in {"host", "legacy"})
      => files[SourceFile(Reqs[Len(Reqs)])] # Reqs[Len(Reqs)].token

\* C7: getBearerToken returns the host's cached token when there is one, and
\* otherwise, for a non-empty host, the legacy/default cached token when
\* there is one; in both cases no authenticate request is sent, whatever
\* credentials the request carries.
C7_CacheHit ==
    /\ (op = "getBearerToken" /\ filesAtStart[HostFile] # NoFile)
         => (spc = "ret" /\ ret = RetToken(filesAtStart[HostFile])
               /\ sent = << >>)
    /\ (op = "getBearerToken" /\ filesAtStart[HostFile] = NoFile
          /\ rHost # EmptyHost /\ filesAtStart[LegacyFile] # NoFile)
         => (spc = "ret" /\ ret = RetToken(filesAtStart[LegacyFile])
               /\ sent = << >>)
    /\ (op = "Send" /\ preAuth /\ Len(sent) >= 1)
         => sent[1] = ReqEntry(filesAtStart[HostFile], "host")
    /\ (op = "Send" /\ ~preAuth /\ rHost # EmptyHost
          /\ filesAtStart[LegacyFile] # NoFile)
         => (Auths = << >>
               /\ (Len(Reqs) = 2
                     => Reqs[2] = ReqEntry(filesAtStart[LegacyFile], "legacy")))

\* getBearerToken has answered from the legacy entry for a request that
\* carries explicit credentials.
C7_Witness ==
    /\ op = "getBearerToken" /\ spc = "ret"
    /\ filesAtStart[HostFile] = NoFile
    /\ rHost # EmptyHost
    /\ HasExplicit(origUser, origPass)
    /\ ret = RetToken("t2")

\* getBearerToken runs without a cache hit and without explicit credentials.
DefaultsTried ==
    /\ op \in {"getBearerToken", "Send"}
    /\ Auths # << >>
    /\ ~HasExplicit(origUser, origPass)

\* C8: with no token cached and no explicit credentials, getBearerToken tries
\* the default pairs in the order root/"", root/turing, root/root,
\* admin/admin, turingpi/turingpi, one authenticate request per pair; it
\* returns the token of the first pair that succeeds and tries no later
\* pair; if all five fail it returns an error wrapping the last attempt's.
C8_DefaultOrder ==
    DefaultsTried =>
        /\ Len(Auths) <= Len(credentialPairs)
        /\ \A i \in 1..Len(Auths) :
              Auths[i] = AuthEntry(credentialPairs[i][1], credentialPairs[i][2])
        /\ Len(Auths) = authFails + (IF spc = "auth" \/ lastAuth.k = "id"
                                       THEN 1 ELSE 0)
        /\ (spc # "auth" /\ lastAuth.k = "id")
              => /\ curTok = lastAuth.id
                 /\ op = "getBearerToken" => ret = RetToken(lastAuth.id)
                 /\ op = "Send" => Reqs[Len(Reqs)] = ReqEntry(lastAuth.id, "fresh")
        /\ (spc # "auth" /\ lastAuth.k # "id")
              => /\ Len(Auths) = Len(credentialPairs)
                 /\ op = "getBearerToken" =>
                      ret = RetErr(Wrap("failed to authenticate with any credentials",
                                        requestTokenErr(lastAuth)))
                 /\ op = "Send" =>
                      ret = RetErr(Wrap("failed to get bearer token",
                                Wrap("failed to authenticate with any credentials",
                                     requestTokenErr(lastAuth))))

\* The third default pair was accepted after the first two were refused.
C8_Witness ==
    /\ op = "getBearerToken" /\ spc = "ret"
    /\ ~HasExplicit(origUser, origPass)
    /\ Len(Auths) = 3
    /\ ret = RetToken("t1")

\* All five default pairs were refused.
C8_WitnessAllFail ==
    /\ op = "getBearerToken" /\ spc = "ret"
    /\ Len(Auths) = 5
    /\ ret.kind = "err"

\* The step in which an authenticate request is answered 200 with a string id.
AuthSucceeds == spc = "auth" /\ lastAuth'.k = "id" /\ spc' # "auth"

ForceReturned == op = "ForceAuthentication" /\ spc = "ret"

C10_WitnessFail ==
    /\ ForceReturned
    /\ filesAtStart[HostFile] = "t1"
    /\ ret.kind = "err"
    /\ files[HostFile] = NoFile

(***************************************************************************)
(* The image transfer: FlashNode started on a cache left by earlier calls  *)
(***************************************************************************)

NodeNumbers == 0..5

\* The credentials the client was built with: none, or a full pair.
FlashCreds == { <<"", "">>, <<"admin", "secret">> }

\* The answers to an authenticate request during a transfer: the transport
\* fails, the BMC refuses, the BMC issues a token.
FlashAuthOutcomes ==
    { o \in AuthOutcomes : o.k \in {"neterr", "403"} \/ (o.k = "id" /\ o.id # "") }

InitFlash ==
    /\ files \in [FileNames -> {NoFile, "t1"}]
    /\ \A n \in FileNames :
          n \notin {getCacheFilePath(FlashHost), getCacheFilePath(EmptyHost)}
             => files[n] = NoFile
    /\ filesAtStart = files
    /\ IdleInit
    /\ AuxInit
    /\ WatchIdle
    /\ CloneIdle
    /\ PollIdle
    /\ AgentIdle

NextFlash ==
    \/ \E n \in NodeNumbers, path \in {"", "img"}, img \in ImageStates,
          sha \in SuppliedSha, c \in FlashCreds :
            FlashNodeStart(n, path, img, sha, c[1], c[2])
    \/ SendAttempt
    \/ \E o \in FlashAuthOutcomes, w \in WriteOutcomes : AuthReply(o, w, "ok")
    \/ \E o \in DoOutcomes(rHost), d \in Drained(formBuffer) : DoReply(o, d)
    \/ \E body \in InitBodies, img \in {"ok", "noseek", "noread"} :
            FlashInitDone(body, img)
    \/ FlashUploadDone
    \/ DeadlineExpires
    \/ WatchCancelled
    \/ WatchTick
    \/ \E body \in PollBodies : FlashPollDone(body)

SpecFlash == InitFlash /\ [][NextFlash]_vars

(***************************************************************************)
(* Properties of the image transfer                                        *)
(***************************************************************************)

FlashReturned == op = "FlashNode" /\ fpc = "done"

\* The call was given a digest, and it is not the digest of the file.
WrongDigest == fArgs.wrongDigest

\* The call got as far as comparing digests: the node number and the path
\* are valid and the image file is there and readable.
DigestCompared == fArgs.readable

\* C1: a FlashNode call given a non-empty SHA-256 digest that differs from
\* the digest computed over the file returns without having sent any HTTP
\* request (no initiate, authenticate, upload or poll request), and what it
\* returns for an image file it could read is the checksum-mismatch error.
C1_ChecksumMismatch ==
    (op = "FlashNode" /\ WrongDigest) =>
        /\ FlashReturned
        /\ ~netUsed
        /\ sent = << >>
        /\ fret # << >>
        /\ DigestCompared => fret = <<"SHA256 checksum mismatch">>

C1_Witness ==
    /\ FlashReturned
    /\ WrongDigest
    /\ DigestCompared
    /\ fret = <<"SHA256 checksum mismatch">>
    /\ ~netUsed

\* C2: FlashNode returns nil only after, in this order, an initiate attempt
\* was answered 200 with a numeric handle, an upload attempt to the URL of
\* that handle was answered 200, and a later poll was answered with Done;
\* every other way out of FlashNode returns a non-nil error.
C2_NilOnlyAfterDone ==
    FlashReturned =>
        /\ fret = << >> => (stage = 3 /\ int(handle) = int(issued))
        /\ stage # 3 => fret # << >>

C2_Witness ==
    /\ FlashReturned
    /\ fret = << >>
    /\ stage = 3

C2_WitnessBudget ==
    /\ FlashReturned
    /\ stage = 1
    /\ attempts = 2
    /\ fret # << >>

\* The errors FlashNode returns out of the initiate loop, and out of the
\* upload loop.
InitErrors ==
    {"failed to send request after retries", "failed to initiate flash operation",
     "failed to parse response", "invalid response: missing handle"}

UploadErrors == {"failed to upload file after retries", "failed to upload file"}

FailedIn(msgs) == FlashReturned /\ fret # << >> /\ Head(fret) \in msgs

\* C16: the initiate request is sent by at most 3 calls of Send; before
\* attempt number n (from 0) the loop has slept 3 seconds n times and no
\* attempt has succeeded yet; FlashNode fails out of this loop only on its
\* third attempt, and with the error of that attempt's outcome.
C16_InitiateRetries ==
    /\ (op = "FlashNode" /\ fpc = "init") =>
          /\ attempts \in 0..2
          /\ slept = InitDelay * attempts
          /\ stage = 0
    /\ FailedIn(InitErrors) =>
          /\ attempts = 2
          /\ slept = InitDelay * 2
          /\ stage = 0
          /\ ~watching
          /\ \/ ret.kind = "err"
                  /\ fret = <<"failed to send request after retries">> \o ret.err
             \/ ret.kind = "resp" /\ ret.status # StatusOK
                  /\ fret = <<"failed to initiate flash operation", "status">>
             \/ ret.kind = "resp" /\ ret.status = StatusOK
                  /\ Head(fret) \in {"failed to parse response",
                                     "invalid response: missing handle"}

\* Three answers without a handle: FlashNode has failed on its third attempt.
C16_Witness ==
    /\ FlashReturned
    /\ fret = <<"invalid response: missing handle">>
    /\ attempts = 2
    /\ slept = 6

\* C17: the upload is sent by at most 3 calls of Send, each for the handle
\* the initiate phase got; before attempt number n the loop has slept
\* 5 seconds n times and no attempt has been answered 200; the progress
\* monitor is entered only after a 200, and FlashNode fails out of this loop
\* only on its third attempt, with that attempt's failure and without having
\* entered the progress monitor.
C17_UploadRetries ==
    /\ (op = "FlashNode" /\ fpc = "upload") =>
          /\ attempts \in 0..2
          /\ slept = UploadDelay * attempts
          /\ stage = 1
          /\ ~watching
    /\ (op = "FlashNode" /\ watching) =>
          /\ stage >= 1
          /\ fpc \notin {"init", "upload"}
          /\ ~FailedIn(UploadErrors)
    /\ FailedIn(UploadErrors) =>
          /\ attempts = 2
          /\ slept = UploadDelay * 2
          /\ ~watching
          /\ \/ ret.kind = "err"
                  /\ fret = <<"failed to upload file after retries">> \o ret.err
             \/ ret.kind = "resp" /\ ret.status # StatusOK
                  /\ fret = <<"failed to upload file", "status">>

\* Two failed uploads and a third one answered with a status other than 200.
C17_Witness ==
    /\ FlashReturned
    /\ fret = <<"failed to upload file", "status">>
    /\ attempts = 2
    /\ slept = 10
    /\ ~watching

\* The third upload attempt was answered 200 and the monitor was entered.
C17_WitnessThird ==
    /\ op = "FlashNode" /\ watching /\ attempts = 2 /\ slept = 10

\* C18: every transmission of a request with a multipart body carries the
\* whole body.
C18_Original ==
    \A i \in 1..Len(bodies) : bodies[i] \in {"nil", "full"}

\* watch has returned its "too many consecutive errors" failure.
GaveUp == FailedIn({"too many consecutive errors"})

\* The watch loop is running.
Watching == op = "FlashNode" /\ fpc \in {"tick", "poll"}

\* C21: while watch polls, fewer than 20 polls in a row have failed; watch
\* returns "too many consecutive errors" exactly with its counter at 20,
\* for a poll that failed, and with that poll's error.
C21_AbortThreshold ==
    /\ Watching => consecutiveErr \in 0..(maxRetries - 1)
    /\ GaveUp => /\ consecutiveErr = maxRetries
                 /\ ret.kind = "err"
                 /\ fret = <<"too many consecutive errors">> \o ret.err
    /\ (op = "FlashNode" /\ consecutiveErr >= maxRetries) => GaveUp

\* The 20th poll in a row has failed.
C21_Witness == GaveUp /\ consecutiveErr = 20 /\ stage = 2

\* C22: a poll that Send completed after n failed ones leaves the counter
\* at 0 and does not make watch give up; watch gives up only with the
\* counter at 20.
C22_CounterReset ==
    /\ (op = "FlashNode" /\ resumedAfter > 0) =>
          /\ consecutiveErr = 0
          /\ ~GaveUp
    /\ Watching => consecutiveErr < maxRetries
    /\ GaveUp => consecutiveErr = maxRetries

\* Nineteen failed polls, then an answered one: watch goes on, counter at 0.
C22_Witness ==
    /\ op = "FlashNode" /\ fpc = "tick"
    /\ resumedAfter = 19
    /\ consecutiveErr = 0

\* C26: the sleep after the n-th consecutive failed poll is n \div 2 seconds,
\* at most 10, and not shorter than the sleep after the poll before it.
C26_Backoff ==
    [][(op = "FlashNode" /\ consecutiveErr' = consecutiveErr + 1 /\ fpc' = "tick") =>
          /\ waited' = consecutiveErr' \div 2
          /\ waited' <= 10
          /\ waited' >= waited]_vars

\* The 19th failed poll in a row was followed by a sleep of 9 seconds.
C26_Witness ==
    /\ op = "FlashNode" /\ fpc = "tick"
    /\ consecutiveErr = 19
    /\ waited = 9

\* C24: once the context is done, a watch that waits for its next tick
\* returns instead of polling, and whatever watch returns from then on is
\* the context's error.
C24_Original ==
    [][(op = "FlashNode" /\ ctxDone) =>
          /\ fpc = "tick" => fpc' = "done"
          /\ fpc' = "done" => fret' = <<"context deadline exceeded">>]_vars

(***************************************************************************)
(* The token cache on its own: the exported functions called in any order  *)
(***************************************************************************)

\* The name GetAllCachedTokens gives the legacy entry, which is also a
\* possible host name.
DefaultName == <<"d", "e", "f", "a", "u", "l", "t">>

CacheHosts == { EmptyHost, <<"a", ".", "b">>, <<"a", "_", "b">>, DefaultName }

\* The files of the cache directory in the order os.ReadDir lists them
\* (sorted by file name).
DirOrder ==
    << <<"tpi_token">>,
       <<"tpi_token_", "a", "_", "b">>,
       <<"tpi_token_">> \o DefaultName >>

\* The file is in the directory listing.
Listed(f, name) == f[name] # NoFile

\* strings.TrimPrefix(name, "tpi_token_")
TrimPrefix(name) == Tail(name)

\* GetAllCachedTokens: one entry per file of the directory, "default" for
\* the legacy file and the rest of the file name for the others.
GetAllCachedTokens(f) ==
    LET present == SelectSeq(DirOrder, LAMBDA n : Listed(f, n))
    IN  [i \in DOMAIN present |->
            IF present[i] = <<"tpi_token">> THEN DefaultName
            ELSE TrimPrefix(present[i])]

\* DeleteAllCachedTokens, for the list of names still to be handled.
RECURSIVE DeleteEach(_, _)
DeleteEach(f, hosts) ==
    IF hosts = << >> THEN f
    ELSE LET host == Head(hosts)
             hostToDelete == IF host # DefaultName THEN host ELSE EmptyHost
         IN  DeleteEach(DeleteCachedToken(f, hostToDelete), Tail(hosts))

DeleteAllCachedTokens(f) == DeleteEach(f, GetAllCachedTokens(f))

RetHosts(l) ==
    [kind |-> "hosts", status |-> 0, err |-> << >>, token |-> "", hosts |-> l]

\* A cache function is called on its own: the record of the call.
CacheCall(name, host) ==
    /\ Idle
    /\ BeginCall(name, host, "", "")
    /\ lastWrite' = "none"
    /\ spc' = "ret"
    /\ sent' = << >>
    /\ credIdx' = 0
    /\ authenticated' = FALSE
    /\ preAuth' = FALSE
    /\ curTok' = ""
    /\ curSrc' = "none"
    /\ UNCHANGED << flashVars, netUsed >>
    /\ UNCHANGED << auxVars, watchVars, cloneVars, agentVars, pollVars >>
    /\ formBuffer' = "nil"

GetCachedTokenCall(host) ==
    /\ CacheCall("GetCachedToken", host)
    /\ ret' = IF GetCachedToken(host).err
                THEN RetErr(<<"open: no such file or directory">>)
                ELSE RetToken(GetCachedToken(host).token)
    /\ UNCHANGED files

GetAllCachedTokensCall ==
    /\ CacheCall("GetAllCachedTokens", EmptyHost)
    /\ ret' = RetHosts(GetAllCachedTokens(files))
    /\ UNCHANGED files

DeleteAllCachedTokensCall ==
    /\ CacheCall("DeleteAllCachedTokens", EmptyHost)
    /\ files' = DeleteAllCachedTokens(files)
    /\ ret' = NoRet

InitCache ==
    /\ files = [n \in { getCacheFilePath(h) : h \in CacheHosts } |-> NoFile]
    /\ filesAtStart = files
    /\ IdleInit
    /\ AuxInit
    /\ WatchIdle
    /\ CloneIdle
    /\ PollIdle
    /\ AgentIdle

NextCache ==
    \/ \E h \in CacheHosts, t \in Tokens, w \in WriteOutcomes :
           CacheTokenCall(h, t, w)
    \/ \E h \in CacheHosts : DeleteCachedTokenCall(h)
    \/ \E h \in CacheHosts : GetCachedTokenCall(h)
    \/ GetAllCachedTokensCall
    \/ DeleteAllCachedTokensCall

SpecCache == InitCache /\ [][NextCache]_vars

(***************************************************************************)
(* Properties of the token cache                                           *)
(***************************************************************************)

Range(q) == { q[i] : i \in DOMAIN q }

\* C11: for every host h and token t, a GetCachedToken(h) that follows a
\* successful CacheToken(h, t) returns exactly t, whatever was put before,
\* and a GetCachedToken(h) that follows DeleteCachedToken(h) reports
\* not-found.
C11_RoundTrip ==
    [][(op' = "GetCachedToken" /\ rHost' = rHost) =>
         /\ (op = "CacheToken" /\ lastWrite = "ok") => ret' = RetToken(curTok)
         /\ (op = "DeleteCachedToken") => ret'.kind = "err"]_vars

\* A get has returned the token that replaced an earlier one.
C11_Witness ==
    /\ op = "GetCachedToken"
    /\ rHost = <<"a", ".", "b">>
    /\ filesAtStart[getCacheFilePath(rHost)] = "t2"
    /\ ret = RetToken("t2")

\* C12 (as claimed): CacheToken(h1, t) and DeleteCachedToken(h1) leave the
\* result of GetCachedToken(h2) unchanged for every other host string h2.
C12_Original ==
    [][op' \in {"CacheToken", "DeleteCachedToken"} =>
         \A h2 \in CacheHosts \ {rHost'} :
             GetCachedToken(h2)' = GetCachedToken(h2)]_vars

\* C14 (as claimed): after a successful CacheToken(h, t) for a non-empty
\* host h the list of GetAllCachedTokens contains the host string h, and
\* after DeleteCachedToken(h) it does not.
C14_Original ==
    /\ (op = "CacheToken" /\ lastWrite = "ok" /\ rHost # EmptyHost)
          => rHost \in Range(GetAllCachedTokens(files))
    /\ (op = "DeleteCachedToken" /\ rHost # EmptyHost)
          => rHost \notin Range(GetAllCachedTokens(files))

\* C15 (as claimed): after DeleteAllCachedTokens has returned without error
\* GetCachedToken reports not-found for every host, the legacy/default entry
\* included, and GetAllCachedTokens returns an empty list.
C15_Original ==
    (op = "DeleteAllCachedTokens" /\ ret = NoRet) =>
        /\ \A h \in CacheHosts : GetCachedToken(h).err
        /\ GetAllCachedTokens(files) = << >>

(***************************************************************************)
(* The token cache used by several calls at once                           *)
(***************************************************************************)

\* The calls that write the host's token while another one reads it.
Writers == { "w1", "w2" }

\* The host they all work for, and the tokens they were issued.
SharedHost == <<"c">>
IssuedTokens == { "t1", "t2" }

\* os.WriteFile, first half: os.OpenFile with O_WRONLY|O_CREATE|O_TRUNC
\* leaves an empty file.
OpenTrunc(f, host) == [f EXCEPT ![getCacheFilePath(host)] = ""]

\* os.WriteFile, second half: f.Write(data) at offset 0, then Close.
WriteData(f, host, token) == [f EXCEPT ![getCacheFilePath(host)] = token]

\* CacheToken(host, token) begins in call w: the file is opened.
WriteFileOpen(w, token) ==
    /\ writers[w].pc = "idle"
    /\ writers' = [writers EXCEPT ![w] = [pc |-> "opened", token |-> token]]
    /\ files' = OpenTrunc(files, SharedHost)
    /\ written' = written \cup {token}
    /\ UNCHANGED << callVars, flashVars, watchVars, cloneVars, agentVars, pollVars, netUsed, readResult >>

\* CacheToken in call w writes its token and returns.
WriteFileWrite(w) ==
    /\ writers[w].pc = "opened"
    /\ files' = WriteData(files, SharedHost, writers[w].token)
    /\ writers' = [writers EXCEPT ![w] = [pc |-> "idle", token |-> ""]]
    /\ UNCHANGED << callVars, flashVars, watchVars, cloneVars, agentVars, pollVars, netUsed, readResult, written >>

\* GetCachedToken(host) in a third call: os.ReadFile.
ConcurrentRead ==
    /\ readResult' = GetCachedToken(SharedHost)
    /\ UNCHANGED << files, callVars, flashVars, watchVars, cloneVars, agentVars, pollVars, netUsed, writers, written >>

\* DeleteCachedToken(host) in a third call (a 401 answer, a logout).
ConcurrentDelete ==
    /\ files' = DeleteCachedToken(files, SharedHost)
    /\ UNCHANGED << callVars, flashVars, watchVars, cloneVars, agentVars, pollVars, netUsed, writers, readResult, written >>

InitConc ==
    /\ files = [n \in FileNames |-> NoFile]
    /\ filesAtStart = files
    /\ IdleInit
    /\ writers = [w \in Writers |-> [pc |-> "idle", token |-> ""]]
    /\ readResult = [err |-> TRUE, token |-> ""]
    /\ written = {}
    /\ WatchIdle
    /\ CloneIdle
    /\ PollIdle
    /\ AgentIdle

NextConc ==
    \/ \E w \in Writers, t \in IssuedTokens : WriteFileOpen(w, t)
    \/ \E w \in Writers : WriteFileWrite(w)
    \/ ConcurrentRead
    \/ ConcurrentDelete

SpecConc == InitConc /\ [][NextConc]_vars

\* C13 (as claimed): whatever calls write and read the host's token
\* concurrently, every GetCachedToken(host) returns either not-found or a
\* complete token that some CacheToken call wrote, never an empty or
\* partially written one.
C13_Original ==
    readResult.err \/ (readResult.token # "" /\ readResult.token \in written)

\* ---------------------------------------------------------------------------
\* watchFlashingProgress with its bookkeeping of the transfer.  Each poll is
\* taken with its outcome: Request.Send is followed in SpecFlash.

\* Bound of the exploration: the seconds a watch is followed for.
MaxClock == 5

Digits == <<"0", "1", "2", "3", "4", "5", "6", "7", "8", "9">>
IsDigit(ch) == \E d \in 1..10 : Digits[d] = ch
DigitValue(ch) == (CHOOSE d \in 1..10 : Digits[d] = ch) - 1

RECURSIVE ParseDigits(_, _)
ParseDigits(q, acc) ==
    IF q = << >> THEN acc
    ELSE ParseDigits(Tail(q), 10 * acc + DigitValue(Head(q)))

\* strconv.ParseInt(s, 10, 64) of an unsigned string.
ParseInt(q) ==
    IF q # << >> /\ \A i \in 1..Len(q) : IsDigit(q[i])
      THEN [ok |-> TRUE, v |-> ParseDigits(q, 0)]
      ELSE [ok |-> FALSE, v |-> 0]

\* The `id` of a Transferring object as a float64; ok is FALSE where the
\* code gives the answer up.
TransferId(j) ==
    CASE j.t = "number" -> [ok |-> TRUE, v |-> j.v]
      [] j.t = "string" -> [ok |-> ParseInt(j.s).ok,
                            v  |-> Float(ParseInt(j.s).v, 0)]
      [] OTHER          -> [ok |-> FALSE, v |-> ZeroHandle]

\* The answer is for the handle h of this watch.
IdMatches(id, h) == int(id) = h

\* `bytes_written` of a Transferring object as an int64.
BytesWritten(j) ==
    CASE j.t = "number" -> [ok |-> TRUE, v |-> int(j.v)]
      [] j.t = "string" -> ParseInt(j.s)
      [] OTHER          -> [ok |-> FALSE, v |-> 0]

\* The values the BMC may put in the two fields, and the image sizes.
WatchIds ==
    { Num(Float(7, 0)), Num(Float(7, 5)), Num(Float(8, 0)), Str(<<"7">>),
      Str(<<"0", "8">>), Str(<<"x">>), Absent }

WatchBytes ==
    { Num(Float(0, 0)), Num(Float(1, 0)), Num(Float(1, 5)), Num(Float(3, 0)),
      Str(<<"2">>), Str(<<"x">>), Absent }

FileSizes == {3, 4}

PollAnswers ==
    { Answer(k, Absent, Absent) :
        k \in {"err", "badjson", "done", "error", "errorstr", "other"} }
        \cup { Answer("transferring", i, b) : i \in WatchIds, b \in WatchBytes }

\* A speed window that keeps every sample.
KeepAll(q) == q

\* The speed window keeps the last 5 samples.
Window(q) == IF Len(q) > 5 THEN Tail(q) ELSE q

\* The sum of a sequence of quotients.
RECURSIVE SumRat(_)
SumRat(q) ==
    IF q = << >> THEN Rat(0, 1)
    ELSE LET t == SumRat(Tail(q))
         IN  Rat(Head(q).num * t.den + t.num * Head(q).den, Head(q).den * t.den)

\* totalSpeed / float64(len(speedWindow))
Mean(q) == Rat(SumRat(q).num, SumRat(q).den * Len(q))

\* A notice printed for every update at or above the file size.
NoticeAlways(v, n) == n + 1

\* The number of "Verifying checksum..." lines after an update at or above
\* the file size, with verifying = v before it.
Notices(v, n) == IF v THEN n ELSE n + 1

\* A percentage that counts what is left.
PercentLeft(b, size) == Rat((size - b) * 100, size)

\* float64(bytesWritten) / float64(fileSize) * 100
Percent(b, size) == Rat(b * 100, size)

\* The result of Send for a poll outcome.
PollResult(a) ==
    IF a.k = "err" THEN RetErr(<<"failed to send request", "transport">>)
    ELSE RetResp(StatusOK)

\* FlashNode has uploaded the image for handle h and enters
\* watchFlashingProgress, up to its loop.
WatchEnter(h, size) ==
    /\ Idle
    /\ h \in Handles
    /\ size \in FileSizes
    /\ op' = "FlashNode"
    /\ fpc' = "tick"
    /\ handle' = h
    /\ issued' = h
    /\ stage' = 2
    /\ watching' = TRUE
    /\ netUsed' = TRUE
    /\ fileSize' = size
    /\ verifying' = FALSE
    /\ lastBytes' = 0
    /\ lastUpdateTime' = 0
    /\ speedWindow' = << >>
    /\ clock' = 0
    /\ printed' = 0
    /\ polled' = NoAnswer
    /\ notices' = 0
    /\ progress' = Rat(0, 1)
    /\ speed' = Rat(0, 1)
    /\ rates' = << >>
    /\ eta' = NoEta
    /\ consecutiveErr' = 0
    /\ ctxDone' = FALSE
    /\ fret' = << >>
    /\ waited' = 0
    /\ resumedAfter' = 0
    /\ UNCHANGED << files, rHost, rUser, rPass, origUser, origPass, spc,
                    authenticated, preAuth, credIdx, lastErr, curTok, curSrc,
                    sent, lastAuth, replies, authFails, all401, lastWrite,
                    filesAtStart, ret, formBuffer, bodies, fArgs, attempts,
                    slept >>
    /\ UNCHANGED << auxVars, cloneVars, agentVars, pollVars >>

\* What the ticker case of the loop does with the outcome a of its poll, at
\* the time `now`.
PollHandled(a, now) ==
    /\ op = "FlashNode" /\ fpc = "tick" /\ watching
    /\ a \in PollAnswers
    /\ ctxDone => a.k = "err"
    /\ polled' = a
    /\ LET id == TransferId(a.id)
           bw == BytesWritten(a.bytes)
           tracked == /\ a.k = "transferring"
                      /\ id.ok
                      /\ IdMatches(id.v, int(handle))
                      /\ bw.ok
           sampled == now - lastUpdateTime > 0 /\ lastBytes > 0
           currentSpeed == Rat(bw.v - lastBytes, now - lastUpdateTime)
           window == IF sampled THEN Window(Append(speedWindow, currentSpeed))
                     ELSE speedWindow
           e == PollFailure(PollResult(a), consecutiveErr, a.k)
       IN  /\ consecutiveErr' = ErrorsAfterPoll(PollResult(a), consecutiveErr)
           /\ clock' = now + PollBackoff(PollResult(a), consecutiveErr)
           /\ IF tracked /\ bw.v >= fileSize
                THEN /\ verifying' = TRUE
                     /\ notices' = Notices(verifying, notices)
                ELSE UNCHANGED << verifying, notices >>
           /\ IF tracked /\ bw.v < fileSize
                THEN /\ speedWindow' = window
                     /\ rates' = IF sampled THEN Append(rates, currentSpeed)
                                 ELSE rates
                     /\ speed' = IF sampled THEN Mean(window) ELSE Rat(0, 1)
                     /\ progress' = Percent(bw.v, fileSize)
                     /\ eta' = Eta(fileSize, bw.v,
                                   IF sampled THEN Mean(window) ELSE Rat(0, 1))
                     /\ lastBytes' = bw.v
                     /\ lastUpdateTime' = now
                     /\ printed' = printed + 1
                ELSE UNCHANGED << speedWindow, rates, speed, progress, eta,
                                  lastBytes, lastUpdateTime, printed >>
           /\ IF e = <<"continue">>
                THEN UNCHANGED << fpc, fret >>
                ELSE FlashReturn(e)
           /\ stage' = IF a.k = "done" /\ stage = 2 THEN 3 ELSE stage
           /\ waited' = PollBackoff(PollResult(a), consecutiveErr)
           /\ resumedAfter' = Resumed(PollResult(a), consecutiveErr)
    /\ UNCHANGED << files, op, rHost, rUser, rPass, origUser, origPass, spc,
                    authenticated, preAuth, credIdx, lastErr, curTok, curSrc,
                    sent, lastAuth, replies, authFails, all401, lastWrite,
                    filesAtStart, ret, formBuffer, bodies, fArgs, attempts,
                    handle, ctxDone, issued, netUsed, slept, watching,
                    fileSize >>
    /\ UNCHANGED << auxVars, cloneVars, agentVars >>

\* The ticker case of the loop: one poll, dt seconds after the last one, with
\* the outcome a.  The watch is followed up to the time `limit`.
WatchPoll(a, dt, limit) ==
    /\ clock < limit
    /\ PollHandled(a, clock + dt)
    /\ UNCHANGED pollVars

NextWatch ==
    \/ \E h \in Handles, size \in FileSizes : WatchEnter(h, size)
    \/ \E a \in PollAnswers, dt \in 1..2 : WatchPoll(a, dt, MaxClock)
    \/ DeadlineExpires
    \/ WatchCancelled

SpecWatch == Init /\ [][NextWatch]_vars

\* A watch on a BMC that only reports the transfer of handle 7, followed for
\* longer: the byte counts 0, 1, 2 and 3 in any order.
MaxSpeedClock == 7

TransferAnswers ==
    { a \in PollAnswers :
        /\ a.k = "transferring"
        /\ a.id = Num(Float(7, 0))
        /\ a.bytes \in { Num(Float(0, 0)), Num(Float(1, 0)), Str(<<"2">>),
                         Num(Float(3, 0)) } }

NextSpeed ==
    \/ \E size \in FileSizes : WatchEnter(Float(7, 0), size)
    \/ \E a \in TransferAnswers, dt \in 1..2 : WatchPoll(a, dt, MaxSpeedClock)

SpecSpeed == Init /\ [][NextSpeed]_vars

\* A watch on a BMC that may leave a poll unanswered.  A poll is followed
\* second by second from the moment it is sent; polls are started up to the
\* time MaxStallClock, and a poll is waited for at most MaxWait seconds.
MaxStallClock == 60
MaxWait == 46

\* progressReq.Timeout and the deadline of reqCtx, in seconds.
PollTimeout == 45

\* A poll that has no deadline of its own.
NoPollDeadline(e) == FALSE

\* The poll sent e seconds ago has reached its deadline.
PollExpired(e) == e >= PollTimeout

\* What a BMC that is Waiting, then Done, answers to a poll; "err" is a
\* transport error that Send returns before the deadline.
StallAnswers == {Answer(k, Absent, Absent) : k \in {"err", "other", "done"}}

\* The Send of a poll that stopped at its deadline returned an error.
TimedOut == Answer("err", Absent, Absent)

\* The ticker case is taken: progressReq.Send() puts the poll on the wire.
PollSend ==
    /\ op = "FlashNode" /\ fpc = "tick" /\ watching
    /\ ~inflight
    /\ clock < MaxStallClock
    /\ inflight' = TRUE
    /\ elapsed' = 0
    /\ UNCHANGED << files, callVars, flashVars, netUsed, auxVars, watchVars,
                    cloneVars, agentVars >>

\* One more second passes without an answer to the poll.
PollWait ==
    /\ inflight
    /\ ~PollExpired(elapsed)
    /\ elapsed < MaxWait
    /\ elapsed' = elapsed + 1
    /\ UNCHANGED << files, callVars, flashVars, netUsed, auxVars, watchVars,
                    cloneVars, agentVars, inflight >>

\* Send returns before the deadline, with the outcome a.
PollAnswered(a) ==
    /\ inflight
    /\ ~PollExpired(elapsed)
    /\ a \in StallAnswers
    /\ PollHandled(a, clock + 1 + elapsed)
    /\ inflight' = FALSE
    /\ UNCHANGED elapsed

\* The deadline of the poll expires: client.Do gives up and Send returns its
\* error.
PollAbandoned ==
    /\ inflight
    /\ PollExpired(elapsed)
    /\ PollHandled(TimedOut, clock + 1 + elapsed)
    /\ inflight' = FALSE
    /\ UNCHANGED elapsed

NextStall ==
    \/ \E size \in FileSizes : WatchEnter(Float(7, 0), size)
    \/ PollSend
    \/ PollWait
    \/ \E a \in StallAnswers : PollAnswered(a)
    \/ PollAbandoned

\* Time passes and the timers of the Go runtime fire: the deadline of a poll
\* and the ticker of the loop.  Nothing obliges the BMC to answer.
SpecStall ==
    /\ Init
    /\ [][NextStall]_vars
    /\ WF_vars(PollWait)
    /\ WF_vars(PollAbandoned)
    /\ WF_vars(PollSend)

\* A watch whose outer deadline expires.  Until then the BMC answers as it
\* likes without ever ending the transfer: with a transport error, an
\* undecodable body, a body the watch does not know, Transferring for the
\* bound handle or Transferring for another one.
ExpireAnswers ==
    { Answer(k, Absent, Absent) : k \in {"err", "badjson", "other"} }
      \cup { Answer("transferring", Num(Float(h, 0)), Num(Float(1, 0))) :
               h \in {7, 8} }

\* A poll while the outer context is live.
PollBeforeDeadline(a, dt) ==
    /\ ~ctxDone
    /\ a \in ExpireAnswers
    /\ WatchPoll(a, dt, MaxClock)

\* The select takes its ticker case although ctx is done: reqCtx, derived
\* from ctx, is done as well and Send returns the error of client.Do.
PollAfterDeadline ==
    /\ ctxDone
    /\ PollHandled(TimedOut, clock + 1)
    /\ UNCHANGED pollVars

NextExpire ==
    \/ \E size \in FileSizes : WatchEnter(Float(7, 0), size)
    \/ \E a \in ExpireAnswers, dt \in 1..2 : PollBeforeDeadline(a, dt)
    \/ DeadlineExpires
    \/ WatchCancelled
    \/ PollAfterDeadline

\* Once ctx is done the select of the loop has a case that is ready, and it
\* takes one: which one is not decided.
SpecExpire ==
    /\ Init
    /\ [][NextExpire]_vars
    /\ WF_vars(WatchCancelled \/ PollAfterDeadline)

\* The last step was a poll answered with a Transferring object.
PolledTransferring == polled'.k = "transferring" /\ clock' # clock

\* The id of a Transferring object is a number other than h, or a string
\* of digits that stands for a number other than h.
IdDiffers(j, h) ==
    \/ j.t = "number" /\ j.v # Float(h, 0)
    \/ j.t = "string" /\ ParseInt(j.s).ok /\ ParseInt(j.s).v # h

\* C20: a Transferring answer whose id differs from the handle of the watch
\* changes none of verifying, lastBytes, lastUpdateTime and speedWindow,
\* prints no progress line, and leaves the watch polling.
C20_Original ==
    [][(PolledTransferring /\ IdDiffers(polled'.id, int(handle))) =>
          /\ UNCHANGED << verifying, lastBytes, lastUpdateTime, speedWindow,
                          printed >>
          /\ fpc' = "tick"
          /\ fret' = fret]_vars

\* The last step was a poll.
Polled == clock' # clock

\* C23: an answer whose body cannot be decoded counts as one more
\* consecutive polling error.
C23_Original ==
    [][(Polled /\ polled'.k = "badjson") =>
          consecutiveErr' = consecutiveErr + 1]_vars

\* C25: an answer with Done ends the watch with nil, an answer with Error,
\* whatever its payload, ends it with an error, and nothing else makes watch
\* return nil.
C25_Original ==
    [][Polled =>
          /\ polled'.k = "done" => (fpc' = "done" /\ fret' = << >>)
          /\ polled'.k \in {"error", "errorstr"} =>
                (fpc' = "done" /\ fret' # << >>
                   /\ Head(fret') = "error occurred during flashing")
          /\ (fpc' = "done" /\ fret' = << >>) => polled'.k = "done"]_vars

\* The last n elements of a sequence.
LastN(q, n) == SubSeq(q, Len(q) - n + 1, Len(q))

Min(a, b) == IF a < b THEN a ELSE b

\* Two quotients are the same number; one is at most the other.
RatEq(a, b) == a.num * b.den = b.num * a.den
RatLeq(a, b) == a.num * b.den <= b.num * a.den

\* C27: the speed window holds the last min(k, 5) of the k rates computed so
\* far, in their order, and a speed that is shown (one above 0) is the
\* arithmetic mean of exactly those rates.
C27_SpeedEstimate ==
    LET m == Min(Len(rates), 5)
        recent == LastN(rates, m)
    IN  /\ Len(speedWindow) <= 5
        /\ speedWindow = recent
        /\ speed.num > 0 =>
             /\ m > 0
             /\ RatEq(speed, Rat(SumRat(recent).num, SumRat(recent).den * m))

\* Six rates were computed and the speed shown is not the mean of all six.
C27_Witness ==
    /\ Len(rates) = 6
    /\ Len(speedWindow) = 5
    /\ speed.num > 0
    /\ ~RatEq(speed, Rat(SumRat(rates).num, SumRat(rates).den * 6))

\* One rate was computed and it is the speed shown.
C27_WitnessOne ==
    /\ Len(rates) = 1
    /\ speed.num > 0
    /\ RatEq(speed, rates[1])

\* The answer is a Transferring update this watch accepts as its own, with
\* bytes_written at or above the file size.
Complete(a) ==
    /\ a.k = "transferring"
    /\ TransferId(a.id).ok
    /\ int(TransferId(a.id).v) = int(handle)
    /\ BytesWritten(a.bytes).ok
    /\ BytesWritten(a.bytes).v >= fileSize

\* C28: the first accepted update with bytes_written >= fileSize sets
\* verifying and prints the notice; no other poll prints it, so a watch
\* prints it at most once.
C28_VerifyingOnce ==
    [][Polled =>
          /\ (Complete(polled') /\ ~verifying) =>
                (verifying' /\ notices' = notices + 1)
          /\ ~(Complete(polled') /\ ~verifying) =>
                (notices' = notices /\ verifying' = verifying)
          /\ notices' <= 1
          /\ verifying' <=> notices' = 1]_vars

\* A second update at the file size has arrived: still one notice.
C28_Witness ==
    /\ notices = 1
    /\ verifying
    /\ Complete(polled)
    /\ printed = 0
    /\ clock >= 3
    /\ lastBytes = 0

\* C29: a Progress line shows a percentage from 0 up to, not including, 100,
\* and when its bytes_written is not below that of the Progress line before
\* it, neither is its percentage.
C29_MonotoneProgress ==
    [][(Polled /\ printed' = printed + 1) =>
          /\ RatLeq(Rat(0, 1), progress')
          /\ ~RatLeq(Rat(100, 1), progress')
          /\ RatEq(progress', Rat(100 * lastBytes', fileSize))
          /\ (printed > 0 /\ lastBytes' >= lastBytes) =>
                RatLeq(progress, progress')]_vars

\* Progress lines for 1 and then 2 of 3 bytes: 33.3% and then 66.7%.
C29_Witness ==
    /\ printed = 2
    /\ lastBytes = 2
    /\ rates = << Rat(1, 1) >>
    /\ progress = Rat(200, 3)

\* ---------------------------------------------------------------------------
\* Request.Clone.  A slice is an address of a backing array, the index its
\* first element has there, a length and a capacity; two slices over one
\* array see each other's writes.

\* Bound of the exploration: the calls made on a request and its clone.
MaxSteps == 4

Methods == {"GET", "POST"}
URLs == {"/api/bmc", "/api/bmc/upload/7"}
HeaderKeys == {"User-Agent", "X-Test"}
HeaderValues == {"TPI", "v"}
QueryKeys == {"opt", "type"}
QueryValues == {"x", "y"}
FormBytes == {"a", "b"}

Slice(a, b, n, c) == [arr |-> a, base |-> b, len |-> n, cap |-> c]
NilSlice == Slice(0, 0, 0, 0)

\* The elements a slice shows.
Elems(h, sl) ==
    IF sl.len = 0 THEN << >>
    ELSE SubSeq(h[sl.arr], sl.base + 1, sl.base + sl.len)

\* make([]T, n, c) holding the elements q and x after them.
NewArray(c, q, x) ==
    [i \in 1..c |-> IF i <= Len(q) THEN q[i] ELSE IF i = Len(q) + 1 THEN x ELSE ""]

\* The capacity append gives a full slice of small elements.
GrowCap(c) == IF c = 0 THEN 1 ELSE 2 * c

\* append(sl, x): in place where the capacity allows, else in a new array.
\* The result is the memory and the slice.
AppendSlice(h, sl, x) ==
    IF sl.len < sl.cap
      THEN [heap  |-> [h EXCEPT ![sl.arr][sl.base + sl.len + 1] = x],
            slice |-> [sl EXCEPT !.len = @ + 1]]
      ELSE [heap  |-> Append(h, NewArray(GrowCap(sl.cap), Elems(h, sl), x)),
            slice |-> Slice(Len(h) + 1, 0, sl.len + 1, GrowCap(sl.cap))]

\* A bytes.Buffer: its slice buf and its read offset off; a nil *bytes.Buffer.
Buffer(sl, o) == [nil |-> FALSE, buf |-> sl, off |-> o]
NilBuffer == [nil |-> TRUE, buf |-> NilSlice, off |-> 0]

\* Buffer.Bytes(): b.buf[b.off:]
Bytes(b) ==
    Slice(b.buf.arr, b.buf.base + b.off, b.buf.len - b.off, b.buf.cap - b.off)

\* Buffer.Reset()
Reset(b) == Buffer([b.buf EXCEPT !.len = 0], 0)

\* Buffer.Read of one byte: an empty buffer is reset.
BufRead(b) == IF b.off >= b.buf.len THEN Reset(b) ELSE [b EXCEPT !.off = @ + 1]

\* Buffer.Write of one byte x: tryGrowByReslice, else grow (reset of an
\* emptied buffer, slide of the unread bytes to the front, or a new array).
BufWrite(h, b, x) ==
    LET e == IF b.buf.len = b.buf.cap /\ b.off = b.buf.len /\ b.off # 0
               THEN Reset(b) ELSE b
        m == e.buf.len - e.off
        unread == Elems(h, Bytes(e))
        newcap == IF m + e.off + 1 < 2 * (e.buf.cap - e.off)
                    THEN 2 * (e.buf.cap - e.off) ELSE m + e.off + 1
    IN  IF e.buf.len < e.buf.cap
          THEN [heap |-> [h EXCEPT ![e.buf.arr][e.buf.base + e.buf.len + 1] = x],
                buf  |-> [e EXCEPT !.buf.len = @ + 1]]
        ELSE IF 1 <= (e.buf.cap \div 2) - m
          THEN [heap |-> [h EXCEPT ![e.buf.arr] =
                            [i \in 1..Len(@) |->
                               IF i \in e.buf.base + 1 .. e.buf.base + m
                                 THEN unread[i - e.buf.base]
                               ELSE IF i = e.buf.base + m + 1 THEN x
                               ELSE @[i]]],
                buf  |-> Buffer([e.buf EXCEPT !.len = m + 1], 0)]
        ELSE [heap |-> Append(h, NewArray(newcap, unread, x)),
              buf  |-> Buffer(Slice(Len(h) + 1, 0, m + 1, newcap), 0)]

\* NewRequest: GET on /api/bmc with the User-Agent header and no query.
FreshRequest ==
    [exists |-> TRUE, method |-> "GET", url |-> "/api/bmc",
     headers |-> [k \in HeaderKeys |-> IF k = "User-Agent" THEN "TPI" ELSE ""],
     query |-> [k \in QueryKeys |-> NilSlice],
     form |-> NilBuffer, contentType |-> ""]

\* The copy of the multipart buffer Clone makes.
ClonedForm(b) == IF b.nil THEN NilBuffer ELSE Buffer(Bytes(b), 0)

\* Request.Clone
Clone(q) ==
    [exists |-> TRUE, method |-> q.method, url |-> q.url,
     headers |-> [k \in HeaderKeys |-> q.headers[k]],
     query |-> [k \in QueryKeys |-> q.query[k]],
     form |-> ClonedForm(q.form),
     contentType |-> IF q.form.nil THEN "" ELSE q.contentType]

\* What a caller can see of a request: its fields, the values of every
\* query key and the unread bytes of its multipart buffer.
View(h, q) ==
    IF ~q.exists THEN [exists |-> FALSE]
    ELSE [exists |-> TRUE, method |-> q.method, url |-> q.url,
          headers |-> q.headers,
          query |-> [k \in QueryKeys |-> Elems(h, q.query[k])],
          form |-> IF q.form.nil THEN <<"nil">> ELSE <<"buf">> \o Elems(h, Bytes(q.form)),
          contentType |-> q.contentType]

Requests == {"r", "c"}
Target(who) == IF who = "r" THEN orig ELSE clone

\* A call on request `who` that turns it into q and the memory into h.
Mutate(who, q, h) ==
    /\ Target(who).exists
    /\ clone.exists
    /\ steps < MaxSteps
    /\ steps' = steps + 1
    /\ lastMut' = who
    /\ heap' = h
    /\ IF who = "r" THEN orig' = q /\ UNCHANGED clone
                    ELSE clone' = q /\ UNCHANGED orig
    /\ UNCHANGED << files, callVars, flashVars, netUsed, auxVars, watchVars, pollVars, agentVars >>

\* A request as a caller may have built it before cloning it: NewRequest,
\* then AddQueryParam under one key, and SetMultipartForm with a buffer that
\* holds one byte and has room for another.
BuildRequest(nq, withForm) ==
    /\ ~orig.exists
    /\ nq \in 0..3
    /\ LET vals == [i \in 1..nq |-> "x"]
           qarr == IF nq = 0 THEN << >>
                   ELSE << NewArray(IF nq = 3 THEN 4 ELSE nq, vals, "") >>
           qsl  == IF nq = 0 THEN NilSlice
                   ELSE Slice(1, 0, nq, IF nq = 3 THEN 4 ELSE nq)
           farr == IF withForm THEN << NewArray(2, << >>, "a") >> ELSE << >>
           fbuf == IF withForm THEN Buffer(Slice(Len(qarr) + 1, 0, 1, 2), 0)
                   ELSE NilBuffer
       IN  /\ heap' = qarr \o farr
           /\ orig' = [FreshRequest EXCEPT !.query["opt"] = qsl,
                          !.form = fbuf,
                          !.contentType = IF withForm THEN "multipart/form-data" ELSE ""]
    /\ lastMut' = "none"
    /\ UNCHANGED << clone, steps >>
    /\ UNCHANGED << files, callVars, flashVars, netUsed, auxVars, watchVars, pollVars, agentVars >>

\* c = r.Clone()
CloneCall ==
    /\ orig.exists /\ ~clone.exists
    /\ clone' = Clone(orig)
    /\ lastMut' = "none"
    /\ UNCHANGED << orig, heap, steps >>
    /\ UNCHANGED << files, callVars, flashVars, netUsed, auxVars, watchVars, pollVars, agentVars >>

\* AddQueryParam(key, value): r.QueryParams.Add
AddQueryParam(who, k, v) ==
    /\ Target(who).exists
    /\ LET a == AppendSlice(heap, Target(who).query[k], v)
       IN  Mutate(who, [Target(who) EXCEPT !.query[k] = a.slice], a.heap)

\* r.Headers[k] = v
SetHeader(who, k, v) ==
    /\ Target(who).exists
    /\ Mutate(who, [Target(who) EXCEPT !.headers[k] = v], heap)

\* r.Method = m and r.URL = u
SetMethodURL(who, m, u) ==
    /\ Target(who).exists
    /\ Mutate(who, [Target(who) EXCEPT !.method = m, !.url = u], heap)

\* r.MultipartForm.Write of one byte
FormWrite(who, x) ==
    /\ Target(who).exists
    /\ ~Target(who).form.nil
    /\ LET w == BufWrite(heap, Target(who).form, x)
       IN  Mutate(who, [Target(who) EXCEPT !.form = w.buf], w.heap)

\* r.MultipartForm.Read of one byte
FormRead(who) ==
    /\ Target(who).exists
    /\ ~Target(who).form.nil
    /\ Mutate(who, [Target(who) EXCEPT !.form = BufRead(@)], heap)

NextClone ==
    \/ \E nq \in 0..3, withForm \in BOOLEAN : BuildRequest(nq, withForm)
    \/ CloneCall
    \/ \E who \in Requests, k \in QueryKeys, v \in QueryValues :
           AddQueryParam(who, k, v)
    \/ \E who \in Requests, k \in HeaderKeys, v \in HeaderValues :
           SetHeader(who, k, v)
    \/ \E who \in Requests, m \in Methods, u \in URLs : SetMethodURL(who, m, u)
    \/ \E who \in Requests, x \in FormBytes : FormWrite(who, x)
    \/ \E who \in Requests : FormRead(who)

SpecClone == Init /\ [][NextClone]_vars

\* C19: once c = r.Clone() exists, a call on c leaves everything a caller can
\* see of r as it was, and a call on r leaves everything a caller can see of
\* c as it was.
C19_Original ==
    [][(clone.exists /\ steps' # steps) =>
          /\ lastMut' = "c" => View(heap', orig') = View(heap, orig)
          /\ lastMut' = "r" => View(heap', clone') = View(heap, clone)]_vars

\* The poll on the wire was abandoned at its deadline in this step.
Abandoned == inflight /\ elapsed = PollTimeout /\ ~inflight'

\* C30: a poll that gets no answer is never waited for beyond its own
\* deadline of 45 seconds; abandoning it adds exactly one to the consecutive
\* error counter and, unless that was the 20th failure in a row, leaves the
\* watch in its loop, which then sends the next poll; so every poll on the
\* wire comes to an end whether or not the BMC answers.
C30_UnresponsivePoll ==
    /\ [](inflight => elapsed <= PollTimeout)
    /\ [][Abandoned =>
            /\ polled'.k = "err"
            /\ consecutiveErr' = consecutiveErr + 1
            /\ consecutiveErr + 1 < maxRetries =>
                 (fpc' = "tick" /\ fret' = fret)]_vars
    /\ inflight ~> ~inflight
    /\ (fpc = "tick" /\ ~inflight /\ clock < MaxStallClock) ~> inflight

\* A poll was abandoned at its deadline, counted, and the next poll is on
\* the wire.
C30_Witness ==
    /\ inflight
    /\ elapsed = 0
    /\ polled.k = "err"
    /\ consecutiveErr = 1
    /\ clock = PollTimeout + 1
    /\ fpc = "tick"

\* C31: after k accepted updates below the file size, the speed window holds
\* min(k, 5) samples.
C31_Original == Len(speedWindow) = Min(printed, 5)

\* C32: a "Progress:" line shows the whole seconds of
\* (fileSize - bytes_written) / speed whenever its speed is above 0, and
\* "calculating..." only when its speed is not above 0.
C32_Original ==
    [][(Polled /\ printed' = printed + 1) =>
          /\ speed'.num > 0 =>
               /\ eta'.shown
               /\ eta'.secs * speed'.num <= (fileSize - lastBytes') * speed'.den
               /\ (fileSize - lastBytes') * speed'.den <
                    (eta'.secs + 1) * speed'.num
          /\ ~eta'.shown => speed'.num <= 0]_vars

\* C33: once the outer deadline has expired, every further poll fails and
\* adds one to the consecutive-error counter, the watch returns when the
\* counter reaches 20, and so the watch returns after at most 20 more polls
\* whatever the BMC answered before.
C33_Termination ==
    /\ [][(ctxDone /\ Polled) =>
            /\ polled'.k = "err"
            /\ consecutiveErr' = consecutiveErr + 1
            /\ consecutiveErr' >= maxRetries => fpc' = "done"]_vars
    /\ []((ctxDone /\ fpc = "tick") => consecutiveErr < maxRetries)
    /\ ctxDone ~> (fpc = "done")

\* The watch returned after the deadline without ever taking the ctx.Done()
\* case: its 20th failed poll in a row ended it.
C33_Witness ==
    /\ ctxDone
    /\ fpc = "done"
    /\ consecutiveErr = maxRetries
    /\ fret # <<"context deadline exceeded">>

\* C34: a Send that found a token cached for its host when it began sends
\* every transmission with a token read from that host's entry, issues no
\* authenticate request and tries no vendor-default credentials, whatever
\* other processes do to the cache meanwhile.
C34_Original ==
    (op = "Send" /\ preAuth) =>
        /\ Len(Auths) = 0
        /\ credIdx = 0
        /\ \A i \in 1..Len(Reqs) : Reqs[i].src = "host"

\* C35: an authenticate attempt that fails leaves every cache entry as it
\* was; an attempt changes the cache only when it succeeds, and then only the
\* entry of the request's host.
C35_FailedAuthKeepsCache ==
    [][spc = "auth" =>
          /\ authFails' = authFails + 1 => files' = files
          /\ files' # files =>
               /\ lastAuth'.k = "id"
               /\ \A n \in FileNames :
                    n # HostFile => files'[n] = files[n]]_vars

\* A refused authenticate request has returned while the legacy/default
\* entry holds a token.
C35_Witness ==
    /\ op = "ForceAuthentication"
    /\ spc = "ret"
    /\ lastAuth.k = "403"
    /\ authFails = 1
    /\ rHost # EmptyHost
    /\ files[LegacyFile] \in Tokens

\* C36: when getBearerToken has returned, the request's username and
\* password are the ones the caller supplied.
C36_Original ==
    (op = "getBearerToken" /\ spc = "ret") =>
        (rUser = origUser /\ rPass = origPass)

\* C37: the watch never sleeps more than 9 seconds after a failed poll: a
\* sleep follows the 1st to the 19th consecutive failure only, so half the
\* counter never exceeds 10 when the back-off is computed, and the 9 seconds
\* are slept after the 18th and the 19th failure.
C37_CapUnreachable ==
    /\ waited <= 9
    /\ waited > 0 => (consecutiveErr < maxRetries
                        /\ waited = consecutiveErr \div 2)
    /\ waited = 9 => consecutiveErr \in {18, 19}

\* The watch has slept 9 seconds after its 19th consecutive failed poll.
C37_Witness ==
    /\ Watching
    /\ waited = 9
    /\ consecutiveErr = 19

\* ---------------------------------------------------------------------------
\* The agent: authenticateRequest, as run by the goroutine of each request of
\* an agent that is configured with a secret.
MaxAgentClock == 3

\* The values of config.Auth.Expiry: no expiry, or one second.
Expiries == {0, 1}

\* An agent whose tokens never expire.
NeverExpired(ts, now, exp) == FALSE

\* a.config.Auth.Expiry > 0 && time.Since(timestamp) > a.config.Auth.Expiry
Expired(ts, now, exp) == exp > 0 /\ now - ts > exp

\* auth.Secret == a.config.Auth.Secret
SecretMatches(auth) == auth.Secret = AgentSecret

\* What none of the steps of goroutine h touches.
AgentFrame ==
    UNCHANGED << files, callVars, flashVars, netUsed, auxVars, watchVars,
                 cloneVars, pollVars, expiry >>

\* handleCommand has decoded a command and calls authenticateRequest with
\* its Auth field.
AuthArrives(h, auth) ==
    /\ hpc[h] = "idle"
    /\ auth \in AuthConfigs
    /\ hreq' = [hreq EXCEPT ![h] = auth]
    /\ hpc' = [hpc EXCEPT ![h] = IF auth.Token # "" THEN "lookup" ELSE "secret"]
    /\ verdict' = [verdict EXCEPT ![h] = "none"]
    /\ hts' = [hts EXCEPT ![h] = 0]
    /\ UNCHANGED << authCache, agentClock, regTimes >>
    /\ AgentFrame

\* The read of a.authCache[auth.Token] under the read lock.
AuthLookup(h) ==
    /\ hpc[h] = "lookup"
    /\ LET e == authCache[hreq[h].Token]
       IN  /\ hts' = [hts EXCEPT ![h] = e.t]
           /\ hpc' = [hpc EXCEPT ![h] = IF e.exists THEN "found" ELSE "secret"]
    /\ UNCHANGED << authCache, agentClock, hreq, verdict, regTimes >>
    /\ AgentFrame

\* The token was found: the test of its age.
AuthFound(h) ==
    /\ hpc[h] = "found"
    /\ IF Expired(hts[h], agentClock, expiry)
         THEN /\ hpc' = [hpc EXCEPT ![h] = "delete"]
              /\ UNCHANGED verdict
         ELSE /\ hpc' = [hpc EXCEPT ![h] = "idle"]
              /\ verdict' = [verdict EXCEPT ![h] = "accept"]
    /\ UNCHANGED << authCache, agentClock, hreq, hts, regTimes >>
    /\ AgentFrame

\* The token has expired: it is deleted under the lock and the request is
\* refused.
AuthDeleteExpired(h) ==
    /\ hpc[h] = "delete"
    /\ authCache' = [authCache EXCEPT ![hreq[h].Token] = NoEntry]
    /\ hpc' = [hpc EXCEPT ![h] = "idle"]
    /\ verdict' = [verdict EXCEPT ![h] = "reject"]
    /\ UNCHANGED << agentClock, hreq, hts, regTimes >>
    /\ AgentFrame

\* No token, or a token the cache does not hold: the secret decides, and a
\* token that came with the right secret is registered.
AuthSecret(h) ==
    /\ hpc[h] = "secret"
    /\ hpc' = [hpc EXCEPT ![h] = "idle"]
    /\ IF SecretMatches(hreq[h])
         THEN /\ verdict' = [verdict EXCEPT ![h] = "accept"]
              /\ IF hreq[h].Token = ""
                   THEN UNCHANGED << authCache, regTimes >>
                   ELSE /\ authCache' = [authCache EXCEPT
                                           ![hreq[h].Token] = Entry(agentClock)]
                        /\ regTimes' = [regTimes EXCEPT ![hreq[h].Token] =
                                          @ \cup {agentClock}]
         ELSE /\ verdict' = [verdict EXCEPT ![h] = "reject"]
              /\ UNCHANGED << authCache, regTimes >>
    /\ UNCHANGED << agentClock, hreq, hts >>
    /\ AgentFrame

\* A second passes.
AgentTick ==
    /\ agentClock < MaxAgentClock
    /\ agentClock' = agentClock + 1
    /\ UNCHANGED << authCache, hpc, hreq, hts, verdict, regTimes >>
    /\ AgentFrame

InitAgent ==
    /\ files = [n \in FileNames |-> NoFile]
    /\ filesAtStart = files
    /\ IdleInit
    /\ AuxInit
    /\ WatchIdle
    /\ CloneIdle
    /\ PollIdle
    /\ AgentStart
    /\ expiry \in Expiries

NextAgent ==
    \/ \E h \in Handlers, auth \in AuthConfigs : AuthArrives(h, auth)
    \/ \E h \in Handlers : AuthLookup(h)
    \/ \E h \in Handlers : AuthFound(h)
    \/ \E h \in Handlers : AuthDeleteExpired(h)
    \/ \E h \in Handlers : AuthSecret(h)
    \/ AgentTick

SpecAgent == InitAgent /\ [][NextAgent]_vars

\* authenticateRequest returns the verdict v to goroutine h in this step.
Returns(h, v) == verdict[h] = "none" /\ verdict'[h] = v

\* C38: a request is accepted only if it carries the configured secret, or
\* carries a non-empty token that was registered together with the secret
\* and, when Expiry > 0, no longer than Expiry ago.
C38_AuthSound ==
    [][\A h \in Handlers :
          Returns(h, "accept") =>
            \/ hreq[h].Secret = AgentSecret
            \/ /\ hreq[h].Token # ""
               /\ \E r \in regTimes[hreq[h].Token] :
                    expiry > 0 => agentClock - r <= expiry]_vars

\* A request with a wrong secret was accepted on its token, and a request
\* with the same token and a wrong secret was refused once it had expired.
C38_Witness ==
    /\ expiry = 1
    /\ verdict = [h \in Handlers |-> IF h = 1 THEN "accept" ELSE "reject"]
    /\ hreq[1] = [Secret |-> "wrong", Token |-> "t1"]
    /\ hreq[2] = [Secret |-> "wrong", Token |-> "t1"]
    /\ regTimes["t1"] = {0}
    /\ ~authCache["t1"].exists

\* C39: every request that carries the configured secret is accepted.
C39_Original ==
    [][\A h \in Handlers :
          (hreq[h].Secret = AgentSecret /\ verdict[h] = "none") =>
              verdict'[h] # "reject"]_vars

=========================================================================
